---------------------------- MODULE Spec2Model ----------------------------
(***************************************************************************)
(* Void Drifter: the module-4 authoritative server (server.c, network.c)   *)
(* and the module-5 client (network_client.c, shared_state.c, main.c).     *)
(*                                                                         *)
(* Spec        a session of the server loop: accepted clients send         *)
(*             PlayerInput messages.                                       *)
(* SpecJoin    the server loop under connection attempts.                  *)
(* SpecFault   the server loop with peers that go away.                    *)
(* SpecBarrage the server loop over a field already full of projectiles.   *)
(* SpecClient  the client: the main thread and the network thread over     *)
(*             the SharedState mutex.                                      *)
(* SpecSend    one call of net_send_all over a transport that takes the    *)
(*             bytes in pieces.                                            *)
(* SpecRecv    one call of net_recv_all over a stream that arrives in      *)
(*             pieces.                                                     *)
(* SpecWeapon  one weapon of the client, or the fire cooldown of one       *)
(*             server slot, under updates and fire attempts.               *)
(* SpecClientLive  SpecClient with both threads scheduled fairly.          *)
(* SpecStream  the server loop with one client whose bytes arrive in       *)
(*             pieces.                                                     *)
(* SpecFirst   the server with peers whose first message is a Connect, a   *)
(*             piece of one, or something else.                            *)
(* SpecCli     the server with the module-4 command-line client and one    *)
(*             other peer, the server's steps scheduled fairly.            *)
(* SpecPass    the receive part of the agent's loop, read by read, on a    *)
(*             stream of GameState messages that arrives in pieces.        *)
(* SpecBullets the server's projectile table under server_update_bullets   *)
(*             and server_spawn_single_bullet.                             *)
(* SpecSync    the world step and the projectile records of the snapshot   *)
(*             for four ships that keep firing.                            *)
(* SpecFrame   the projectile table as main's stack frame holds it when    *)
(*             server_init returns.                                        *)
(* SpecReuse   the server loop with sessions that follow one another in a  *)
(*             player slot.                                                *)
(* SpecCrowd   server_spawn_bullet on a projectile table that is full or   *)
(*             nearly full.                                                *)
(* SpecPhysics server_update_physics for one ship, on a fixed-point grid.  *)
(***************************************************************************)
EXTENDS Integers, Sequences, FiniteSets, TLC

(* ------------------------------ bounds --------------------------------- *)
\* Spec: connection attempts, messages sent after the Connect, loop iterations
SessConns == 1
MaxMsgs == 2
SessTicks == 3
\* SpecJoin: connection attempts, loop iterations
MaxConns == 5
MaxTick == 5
\* SpecFault: connection attempts, messages, peers going away, loop iterations
FaultConns == 2
FaultMsgs == 1
MaxFaults == 1
FaultTicks == 3
\* SpecBarrage: projectiles in flight at the start, loop iterations
Barrage == 48
BarrageTicks == 2
\* largest PlayerInput sequence number a peer puts on the wire
MaxSeq == 3
\* messages sent with a wrong version or a wrong header length, over a run
MaxBad == 1
\* SpecClient: frames of the main loop, GameState messages the server sends,
\* passes of the network thread's loop
MaxFrames == 2
MaxSnaps == 2
MaxPolls == 2
\* SpecSend, SpecRecv: bytes of the payload or of the stream, EINTR results in a call
MaxPayload == 10
MaxIntr == 1
\* SpecWeapon: updates of one weapon
MaxUpdates == 8
\* SpecStream: messages the client sends after its Connect, pieces they arrive
\* in, loop iterations
StreamMsgs == 2
StreamDeliveries == 3
StreamTicks == 8
\* SpecFirst: connections, PlayerInputs of accepted clients, peers that close,
\* loop iterations
FirstConns == 2
FirstMsgs == 1
FirstFaults == 1
FirstTicks == 3
\* SpecCli: connections, loop iterations
CliConns == 2
CliTicks == 4
\* SpecPass: GameState messages the server sends, pieces the stream arrives
\* in, passes of the agent's loop
MaxSent == 2
MaxArrivals == 3
MaxPasses == 2
\* SpecBullets: updates of the projectile table, projectiles spawned
MaxBulletUpdates == 122
\* SpecSync: loop iterations
SyncTicks == 102
\* SpecFrame: slots of the frame that are followed, updates, fire events
FrameSlots == 2
FrameUpdates == 3
FrameSpawns == 2
\* SpecReuse: connection attempts, peers going away, loop iterations
ReuseConns == 2
ReuseFaults == 1
ReuseTicks == 4
\* SpecCrowd: fire events, updates
CrowdSpawns == 2
CrowdUpdates == 2
\* SpecPhysics: physics steps
PhysicsSteps == 112
MaxSpawns == 2

(* ------------------------- program constants --------------------------- *)
MAX_PLAYERS == 4
PROTOCOL_VERSION == 1
MSG_NONE == 0
MSG_CONNECT == 1
MSG_CONNECT_ACK == 2
MSG_DISCONNECT == 3
MSG_PLAYER_INPUT == 4
MSG_GAME_STATE == 5
MSG_PING == 6
MSG_PONG == 7
INPUT_UP == 1
INPUT_LEFT == 2
INPUT_DOWN == 4
INPUT_RIGHT == 8
INPUT_FIRE == 16
WEAPON_TYPE_SPREAD == 0
WEAPON_TYPE_RAPID == 1
WEAPON_TYPE_LASER == 2
\* sizeof of the packed wire structs
SIZEOF_HEADER == 3
SIZEOF_CONNECT == 17
SIZEOF_INPUT == 7
SIZEOF_PING == 4
SIZEOF_PONG == 8
SIZEOF_GAMESTATE == 10
SIZEOF_PLAYERSTATE == 21
SIZEOF_BULLETSTATE == 18
\* ConnectAckMsg.reason
REASON_FULL == 0
REASON_VERSION == 1

MAX_REMOTE_BULLETS == 50
BUFFER_SIZE == 1024
MAX_SERVER_BULLETS == 200
MAX_SYNC_BULLETS == 50
GAME_WIDTH == 800
GAME_HEIGHT == 600
PLAYER_SPEED == 300
PLAYER_ACCELERATION == 800
TICK_RATE == 60
Slots == 0 .. (MAX_PLAYERS - 1)
NoSock == 0

VARIABLES
    players,        \* GameServer.players: slot -> ServerPlayer
    player_count,   \* GameServer.player_count
    tick,           \* GameServer.tick
    bullets,        \* GameServer.bullets: the slots written so far, slot k at index k + 1
    bullet_count,   \* GameServer.bullet_count
    srv_pc,         \* position of the server in main's loop
    srv_i,          \* loop index of the message-processing for loop
    hs_sock,        \* socket returned by accept, while the handshake is read
    inherit_nb,     \* platform: does accept() hand down O_NONBLOCK (BSD) or not (Linux)
    backlog,        \* listen queue: established connections not yet accepted
    cst,            \* connection -> "idle" | "queued" | "held" | "closed" (server side)
    peer,           \* connection -> "open" | "closed" | "reset" (peer side)
    inb,            \* connection -> bytes sent by the peer, not yet read by the server
    ack,            \* connection -> the ConnectAck the peer received, <<>> if none
    snap,           \* connection -> the last GameState the peer received, <<>> if none
    used,           \* peer activity so far: [msgs, faults, bad]
    lim,            \* the run's limits on peer activity: [conns, msgs, faults, bad, ticks]
    everFreed,      \* history: some player slot has been freed
    acceptLog,      \* history: connections whose Connect carried the server's version, in handshake order
    sendFailed,     \* history: slots whose send failed in the last broadcast
    lastInput,      \* history: the last PlayerInput a handler read whole: << slot, sequence, last_sequence before >>
    nc,             \* NetworkClient: [running, socket, player_id, freed]
    sh,             \* SharedState, the fields behind the mutex
    mutex,          \* SharedState.mutex: "free" | "main" | "agent" | "destroyed"
    agent_pc,       \* position of the network thread in network_thread_func
    agent_loc,      \* the network thread's locals: the ConnectAck read, the decoded GameState and the input read for sending
    main_pc,        \* position of the main thread in main
    game,           \* main's GameState: remote_players, remote_bullets, frame_count
    link,           \* the client's connection as the server drives it: [snaps, polls]
    bare,           \* history: << thread, field >> for SharedState fields touched without the mutex
    early,          \* history: what the owner reclaimed while the network thread had not returned
    loopExit,       \* history: how the steady-state loop was left: "" | "flag" | "closed" | "error"
    io,             \* one call of net_send_all or net_recv_all and the transport under it
    gun             \* one weapon and the time that passes over it

serverState == << players, player_count, tick, bullets, bullet_count, srv_pc, srv_i, hs_sock,
                  inherit_nb, backlog, cst, peer, inb, ack, snap, used, lim, everFreed, acceptLog,
                  sendFailed, lastInput >>
clientState == << nc, sh, mutex, agent_pc, agent_loc, main_pc, game, link, bare, early, loopExit >>
\* the single functions that are run on their own
bench == << io, gun >>
\* what the client's threads leave alone, and what the server and its peers do
serverSide == << serverState, bench >>
clientVars == << clientState, bench >>
vars == << serverState, clientState, bench >>

\* the connections of a run
Conns == 1 .. lim.conns

(* ------------------------------ wire ----------------------------------- *)
Take(s, n) == SubSeq(s, 1, n)
Drop(s, n) == SubSeq(s, n + 1, Len(s))
Min(a, b) == IF a < b THEN a ELSE b

\* little-endian packed integers, as the raw structs are sent
EncU16(v) == << v % 256, (v \div 256) % 256 >>
DecU16(b) == b[1] + 256 * b[2]
EncU32(v) == << v % 256, (v \div 256) % 256, (v \div 65536) % 256, (v \div 16777216) % 256 >>
DecU32(b) == b[1] + 256 * b[2] + 65536 * b[3] + 16777216 * b[4]

EncHeader(type, length) == << type >> \o EncU16(length)
HdrType(b) == b[1]
HdrLength(b) == DecU16(SubSeq(b, 2, 3))

Zeros(n) == [k \in 1 .. n |-> 0]
EncConnect(version) == << version >> \o Zeros(SIZEOF_CONNECT - 1)
EncInput(pid, flags, weapon, sequence) == << pid, flags, weapon >> \o EncU32(sequence)
InFlags(b) == b[2]
InWeapon(b) == b[3]
InSequence(b) == DecU32(SubSeq(b, 4, 7))


(* ------------------------ single-precision floats ---------------------- *)
\* The timers of the game are C floats.  A float is carried as the whole number
\* of 2^-29 it amounts to, which is exact for every value a timer takes (all of
\* them are multiples of 2^-29 of magnitude at most 2).  The result of a
\* subtraction is rounded as the FPU rounds it: to 24 significant bits, to
\* nearest, ties to even.
Abs(x) == IF x < 0 THEN -x ELSE x

\* the spacing q of the floats around magnitude m: the least power of two with
\* m / q below 2^24
RECURSIVE F32Spacing(_, _)
F32Spacing(m, q) == IF m \div q < 16777216 THEN q ELSE F32Spacing(m, 2 * q)

\* round to the nearest float, ties to the even mantissa
F32(x) ==
    LET q == F32Spacing(Abs(x), 1)
        r == x % q
        lo == x - r
    IN IF 2 * r < q THEN lo
       ELSE IF 2 * r > q THEN lo + q
       ELSE IF (lo \div q) % 2 = 0 THEN lo ELSE lo + q

\* float dt = 1.0f / TICK_RATE: 0x3C888889
DT == 8947849
\* 2.0f
BULLET_LIFETIME == 1073741824
\* 1.0f / 3.0f, 1.0f / 10.0f and 1.0f / 1.5f: 0x3EAAAAAB, 0x3DCCCCCD, 0x3F2AAAAB
SPREAD_COOLDOWN == 178956976
RAPID_COOLDOWN == 53687092
LASER_COOLDOWN == 357913952


(* ------------------------- client: its state -------------------------- *)
\* NetworkStatus
NET_DISCONNECTED == 0
NET_CONNECTING == 1
NET_CONNECTED == 2
NET_ERROR == 3

INVALID_SOCKET == -1
\* the descriptor socket() hands to the network thread
ClientSock == 3

\* the RemotePlayer and RemoteBullet arrays as a GameState fills them: the first n
\* entries active, their positions and velocities those of server tick `of`
NoRecords == [n |-> 0, of |-> 0]

\* shared_state_init
SharedInit ==
    [status |-> NET_DISCONNECTED, message |-> "Not connected", my_id |-> 0,
     players |-> NoRecords, player_count |-> 0, server_tick |-> 0,
     bullets |-> NoRecords, bullet_count |-> 0,
     input_to_send |-> 0, weapon_type |-> 0, input_sequence |-> 0,
     packets_received |-> 0, packets_sent |-> 0]

\* main up to the call of net_client_connect: GameState zeroed, shared_state_init,
\* net_client_create
BenchIdle ==
    /\ io = [fn |-> "none"]
    /\ gun = [fn |-> "none"]

ClientStart ==
    /\ nc = [running |-> FALSE, socket |-> INVALID_SOCKET, player_id |-> 0, freed |-> FALSE]
    /\ sh = SharedInit
    /\ mutex = "free"
    /\ agent_pc = "none"
    /\ agent_loc = [players |-> NoRecords, bullets |-> NoRecords, tick |-> 0,
                    flags |-> 0, weapon |-> 0, sequence |-> 0, get_calls |-> 0, locked_at |-> "",
                    report |-> << NET_DISCONNECTED, "" >>, ack |-> << >>]
    /\ main_pc = "connect"
    /\ game = [remote_players |-> NoRecords, remote_player_count |-> 0,
               remote_bullets |-> NoRecords, remote_bullet_count |-> 0, frame_count |-> 0,
               input |-> [flags |-> 0, weapon |-> 0, before |-> 0],
               last_set |-> << 0, 0, 0 >>, set_calls |-> 0, locked_at |-> ""]
    /\ link = [snaps |-> 0, polls |-> 0, sent |-> << >>, prev |-> << >>]
    /\ bare = {}
    /\ early = {}
    /\ loopExit = ""

\* the client before net_client_connect, with no single function under way
ClientInit == ClientStart /\ BenchIdle

(* ------------------------------ sockets -------------------------------- *)
\* recv(2) on a non-blocking socket: the count of bytes handed over (at most n, at
\* most what has arrived), 0 when the peer has closed and nothing is left, -1 with
\* errno EAGAIN when nothing has arrived yet, -2 for any other error.
Recv(c, n) ==
    IF Len(inb[c]) > 0 THEN Min(n, Len(inb[c]))
    ELSE IF peer[c] = "closed" THEN 0
    ELSE IF peer[c] = "reset" THEN -2
    ELSE -1

\* net_recv_all over bytes `avail` of connection c, non-blocking: the loop collects
\* until n bytes are there; EAGAIN and a close return what was collected, any other
\* error returns -1.
RecvAllCount(c, avail, n) ==
    IF Len(avail) >= n THEN n
    ELSE IF peer[c] = "reset" THEN -1
    ELSE Len(avail)

\* a blocking net_recv_all of n bytes would wait: bytes are missing and the peer is
\* still there to send them
WouldBlock(c, avail, n) == Len(avail) < n /\ peer[c] = "open"

(* ------------------------------ server --------------------------------- *)
\* memset(player, 0, sizeof(ServerPlayer)).  x, y, vx and vy are a function of
\* the slot's spawn point and of the input flags of the physics steps made since
\* the spawn: kin carries those flags in place of the four floats
ZeroPlayer ==
    [active |-> FALSE, socket |-> NoSock, weapon |-> 0, input_flags |-> 0, last_sequence |-> 0,
     health |-> 0, fire_cooldown |-> 0, kin |-> << >>]

ActiveSlots == {i \in Slots : players[i].active}

\* a scan from the top of the table
server_find_free_slot_top ==
    IF \E i \in Slots : ~players[i].active
    THEN CHOOSE i \in Slots : ~players[i].active /\ \A j \in Slots : j > i => players[j].active
    ELSE -1

\* server_find_free_slot: the lowest free index, -1 when there is none
server_find_free_slot ==
    IF \E i \in Slots : ~players[i].active
    THEN CHOOSE i \in Slots : ~players[i].active /\ \A j \in Slots : j < i => players[j].active
    ELSE -1

\* the for loop at server.c 721-727 runs the handler on the active slots in index
\* order: the next index at or after i whose slot is active in table P, MAX_PLAYERS
\* when there is none
NextActive(P, i) ==
    IF \E j \in Slots : j >= i /\ P[j].active
    THEN CHOOSE j \in Slots : j >= i /\ P[j].active /\ \A k \in Slots : (k >= i /\ k < j) => ~P[k].active
    ELSE MAX_PLAYERS

\* server_init, with no peer connected yet.  server_init writes players,
\* player_count, tick and listen_socket; bullets[] and bullet_count keep what
\* main's stack frame holds (server.c 698).  The specifications of the message
\* paths start from a frame of zero bytes; SpecFrame starts from the other
\* contents as well
ServerInit(limits) ==
    /\ lim = limits
    /\ used = [msgs |-> 0, faults |-> 0, bad |-> 0]
    /\ players = [i \in Slots |-> ZeroPlayer]
    /\ player_count = 0
    /\ tick = 0
    /\ bullets = << >>
    /\ bullet_count = 0
    /\ srv_pc = "accept"
    /\ srv_i = 0
    /\ hs_sock = NoSock
    /\ inherit_nb \in BOOLEAN
    /\ backlog = << >>
    /\ cst = [c \in 1 .. limits.conns |-> "idle"]
    /\ peer = [c \in 1 .. limits.conns |-> "open"]
    /\ inb = [c \in 1 .. limits.conns |-> << >>]
    /\ ack = [c \in 1 .. limits.conns |-> << >>]
    /\ snap = [c \in 1 .. limits.conns |-> << >>]
    /\ everFreed = FALSE
    /\ acceptLog = << >>
    /\ sendFailed = {}
    /\ lastInput = << >>

serverVars == << players, player_count, tick, bullets, bullet_count, srv_pc, srv_i, hs_sock,
                inherit_nb >>
world == << bullets, bullet_count >>
hist == << everFreed, acceptLog, sendFailed, lastInput, lim >>

(* peers *)
\* The server looks at its sockets at four places of an iteration: accept, the
\* handshake reads, the per-slot reads and the sends.  What a peer does between
\* two of them is seen at the later one, so peer events are taken at the top of
\* the iteration and while the handshake read waits; a peer going away is also
\* taken between the reads and the sends.
WireTurn == srv_pc \in {"accept", "handshake"}

\* connect(): the connection is established by the kernel and waits in the listen queue
PeerOpen(c) ==
    /\ cst[c] = "idle"
    /\ c > 1 => cst[c - 1] # "idle"
    /\ WireTurn
    /\ cst' = [cst EXCEPT ![c] = "queued"]
    /\ backlog' = Append(backlog, c)
    /\ UNCHANGED << serverVars, inb, ack, snap, peer, used, hist, clientVars >>

\* the peer's first message: a Connect with some version, its header carrying some length
PeerSendConnect(c, version, length) ==
    /\ cst[c] \in {"queued", "held"}
    /\ peer[c] = "open"
    /\ ack[c] = << >>
    /\ inb[c] = << >>
    /\ WireTurn
    /\ LET bad == IF version = PROTOCOL_VERSION /\ length = SIZEOF_CONNECT THEN 0 ELSE 1
       IN /\ used.bad + bad <= lim.bad
          /\ used' = [used EXCEPT !.bad = @ + bad]
    /\ inb' = [inb EXCEPT ![c] = EncHeader(MSG_CONNECT, length) \o EncConnect(version)]
    /\ UNCHANGED << serverVars, backlog, cst, ack, snap, peer, hist, clientVars >>

Accepted(c) == ack[c] # << >> /\ ack[c][1] = 1

\* a client that was accepted sends a PlayerInput
PeerSendInput(c, flags, weapon, sequence, length) ==
    /\ cst[c] = "held" /\ peer[c] = "open" /\ Accepted(c)
    /\ WireTurn
    /\ used.msgs < lim.msgs
    /\ LET bad == IF length = SIZEOF_INPUT THEN 0 ELSE 1
       IN /\ used.bad + bad <= lim.bad
          /\ used' = [used EXCEPT !.msgs = @ + 1, !.bad = @ + bad]
    /\ inb' = [inb EXCEPT ![c] = @ \o EncHeader(MSG_PLAYER_INPUT, length)
                                   \o EncInput(ack[c][2], flags, weapon, sequence)]
    /\ UNCHANGED << serverVars, backlog, cst, ack, snap, peer, hist, clientVars >>

\* a header-only message: Disconnect, or a type the server has no case for
PeerSendBare(c, type) ==
    /\ cst[c] = "held" /\ peer[c] = "open" /\ Accepted(c)
    /\ WireTurn
    /\ used.msgs < lim.msgs
    /\ used' = [used EXCEPT !.msgs = @ + 1]
    /\ inb' = [inb EXCEPT ![c] = @ \o EncHeader(type, 0)]
    /\ UNCHANGED << serverVars, backlog, cst, ack, snap, peer, hist, clientVars >>

\* close(): an orderly shutdown; what was sent stays readable
PeerClose(c) ==
    /\ cst[c] \in {"queued", "held"} /\ peer[c] = "open"
    /\ WireTurn \/ srv_pc = "send"
    /\ used.faults < lim.faults
    /\ used' = [used EXCEPT !.faults = @ + 1]
    /\ peer' = [peer EXCEPT ![c] = "closed"]
    /\ UNCHANGED << serverVars, backlog, cst, inb, ack, snap, hist, clientVars >>

\* the connection is reset: unread bytes are gone and reads fail
PeerReset(c) ==
    /\ cst[c] \in {"queued", "held"} /\ peer[c] = "open"
    /\ WireTurn \/ srv_pc = "send"
    /\ used.faults < lim.faults
    /\ used' = [used EXCEPT !.faults = @ + 1]
    /\ peer' = [peer EXCEPT ![c] = "reset"]
    /\ inb' = [inb EXCEPT ![c] = << >>]
    /\ UNCHANGED << serverVars, backlog, cst, ack, snap, hist, clientVars >>

(* server: main's loop, server.c 716-746 *)
peerVars == << inherit_nb, peer, used, lim >>

\* net_close of a connection the server holds
CloseConn(f, c) == [f EXCEPT ![c] = "closed"]

\* where the loop goes after server_accept_new_client returned, with table P
AfterAccept(P) ==
    /\ srv_i' = NextActive(P, 0)
    /\ srv_pc' = IF NextActive(P, 0) < MAX_PLAYERS THEN "recv" ELSE "world"

\* server_accept_new_client up to its first read: accept() on the non-blocking
\* listen socket
Accept ==
    /\ srv_pc = "accept"
    /\ tick < lim.ticks
    /\ IF backlog = << >>
       THEN /\ AfterAccept(players)
            /\ UNCHANGED << hs_sock, backlog, cst >>
       ELSE /\ hs_sock' = Head(backlog)
            /\ backlog' = Tail(backlog)
            /\ cst' = [cst EXCEPT ![Head(backlog)] = "held"]
            /\ srv_pc' = "handshake"
            /\ UNCHANGED srv_i
    /\ UNCHANGED << players, player_count, tick, world, inb, ack, snap, peerVars, clientVars,
                    everFreed, acceptLog, sendFailed, lastInput >>

\* the free-slot check made before the version check
HandshakeOutcomeFullFirst(c, b) ==
    IF RecvAllCount(c, b, SIZEOF_HEADER) # SIZEOF_HEADER THEN "close"
    ELSE IF HdrType(Take(b, SIZEOF_HEADER)) # MSG_CONNECT THEN "close"
    ELSE IF RecvAllCount(c, Drop(b, SIZEOF_HEADER), SIZEOF_CONNECT) # SIZEOF_CONNECT THEN "close"
    ELSE IF server_find_free_slot < 0 THEN "full"
    ELSE IF Drop(b, SIZEOF_HEADER)[1] # PROTOCOL_VERSION THEN "version"
    ELSE "join"

\* the payload read taken as failed only when it brought nothing
HandshakeOutcomeAnyPayload(c, b) ==
    IF RecvAllCount(c, b, SIZEOF_HEADER) # SIZEOF_HEADER THEN "close"
    ELSE IF HdrType(Take(b, SIZEOF_HEADER)) # MSG_CONNECT THEN "close"
    ELSE IF RecvAllCount(c, Drop(b, SIZEOF_HEADER), SIZEOF_CONNECT) <= 0 THEN "close"
    ELSE IF Drop(b, SIZEOF_HEADER)[1] # PROTOCOL_VERSION THEN "version"
    ELSE IF server_find_free_slot < 0 THEN "full"
    ELSE "join"

\* the outcome of the rest of server_accept_new_client on the bytes b waiting on
\* connection c: "close" (a read came short or the type is not Connect),
\* "version", "full", or "join"
HandshakeOutcome(c, b) ==
    IF RecvAllCount(c, b, SIZEOF_HEADER) # SIZEOF_HEADER THEN "close"
    ELSE IF HdrType(Take(b, SIZEOF_HEADER)) # MSG_CONNECT THEN "close"
    ELSE IF RecvAllCount(c, Drop(b, SIZEOF_HEADER), SIZEOF_CONNECT) # SIZEOF_CONNECT THEN "close"
    ELSE IF Drop(b, SIZEOF_HEADER)[1] # PROTOCOL_VERSION THEN "version"
    ELSE IF server_find_free_slot < 0 THEN "full"
    ELSE "join"

\* the accepted socket is blocking unless accept() handed down O_NONBLOCK; a
\* blocking net_recv_all waits here for the header, then for the payload
HandshakeBlocked(c, b) ==
    /\ ~inherit_nb
    /\ \/ WouldBlock(c, b, SIZEOF_HEADER)
       \/ /\ Len(b) >= SIZEOF_HEADER
          /\ HdrType(Take(b, SIZEOF_HEADER)) = MSG_CONNECT
          /\ WouldBlock(c, Drop(b, SIZEOF_HEADER), SIZEOF_CONNECT)

\* a slot taken over as its previous holder p left it
JoinedKeepingState(p, c) ==
    [p EXCEPT !.active = TRUE, !.socket = c, !.health = 100, !.weapon = 0]

\* server.c 231-247: the slot a new player is given, p being what the slot held:
\* memset, then active, socket, spawn point, health and weapon
Joined(p, c) ==
    [ZeroPlayer EXCEPT !.active = TRUE, !.socket = c, !.health = 100]

\* server_accept_new_client from the first read to its return
Handshake ==
    /\ srv_pc = "handshake"
    /\ ~HandshakeBlocked(hs_sock, inb[hs_sock])
    /\ LET c == hs_sock
           out == HandshakeOutcome(c, inb[c])
           slot == server_find_free_slot
       IN /\ CASE out = "close" ->
                    /\ cst' = CloseConn(cst, c)
                    /\ UNCHANGED << players, player_count, ack, acceptLog >>
               [] out = "version" ->
                    /\ ack' = [ack EXCEPT ![c] = << 0, 0, REASON_VERSION >>]
                    /\ cst' = CloseConn(cst, c)
                    /\ UNCHANGED << players, player_count, acceptLog >>
               [] out = "full" ->
                    /\ ack' = [ack EXCEPT ![c] = << 0, 0, REASON_FULL >>]
                    /\ cst' = CloseConn(cst, c)
                    /\ acceptLog' = Append(acceptLog, c)
                    /\ UNCHANGED << players, player_count >>
               [] out = "join" ->
                    /\ players' = [players EXCEPT ![slot] = Joined(players[slot], c)]
                    /\ player_count' = player_count + 1
                    /\ ack' = [ack EXCEPT ![c] = << 1, slot, 0 >>]
                    /\ acceptLog' = Append(acceptLog, c)
                    /\ UNCHANGED cst
          /\ inb' = [inb EXCEPT ![c] = IF out = "join"
                                       THEN Drop(@, SIZEOF_HEADER + SIZEOF_CONNECT)
                                       ELSE << >>]
    /\ hs_sock' = NoSock
    /\ AfterAccept(players')
    /\ UNCHANGED << tick, world, backlog, snap, peerVars, clientVars, everFreed, sendFailed,
                    lastInput >>

\* what an uninitialised PlayerInputMsg on the stack may hold
GarbageInputs == {[k \in 1 .. SIZEOF_INPUT |-> 0], [k \in 1 .. SIZEOF_INPUT |-> 127]}

\* a check that lets a repeated sequence number through
StaleInputStrict(sequence, last_sequence) == sequence < last_sequence

\* server.c 320: the sequence check of a PlayerInput
StaleInput(sequence, last_sequence) == sequence <= last_sequence

\* the sequence numbers a slot applies out of the arrivals s, its last-accepted
\* sequence being `last` (server.c 320-325)
RECURSIVE AppliedOf(_, _)
AppliedOf(s, last) ==
    IF s = << >> THEN << >>
    ELSE IF StaleInput(Head(s), last) THEN AppliedOf(Tail(s), last)
    ELSE << Head(s) >> \o AppliedOf(Tail(s), Head(s))

\* a drop that forgets the count
FreeSlotKeepCount(i) ==
    /\ cst' = CloseConn(cst, players[i].socket)
    /\ players' = [players EXCEPT ![i].active = FALSE]
    /\ player_count' = player_count
    /\ everFreed' = TRUE

\* the places that drop a player: net_close, active = 0, player_count--
FreeSlot(i) ==
    /\ cst' = CloseConn(cst, players[i].socket)
    /\ players' = [players EXCEPT ![i].active = FALSE]
    /\ player_count' = player_count - 1
    /\ everFreed' = TRUE

\* case MSG_PLAYER_INPUT, with `rest` the bytes after the header and g what the
\* input struct held before the read
HandlePlayerInput(i, rest, g) ==
    LET c == players[i].socket
        n == RecvAllCount(c, rest, SIZEOF_INPUT)
        input == Take(rest, n) \o SubSeq(g, n + 1, SIZEOF_INPUT)
    IN IF n <= 0
       THEN /\ inb' = [inb EXCEPT ![c] = rest]
            /\ UNCHANGED << players, player_count, cst, everFreed, lastInput >>
       ELSE /\ inb' = [inb EXCEPT ![c] = Drop(rest, n)]
            /\ lastInput' = IF n = SIZEOF_INPUT
                            THEN << i, InSequence(input), players[i].last_sequence >>
                            ELSE lastInput
            /\ IF StaleInput(InSequence(input), players[i].last_sequence)
               THEN UNCHANGED players
               ELSE players' = [players EXCEPT ![i].last_sequence = InSequence(input),
                                               ![i].input_flags = InFlags(input),
                                               ![i].weapon = InWeapon(input)]
            /\ UNCHANGED << player_count, cst, everFreed >>

\* server_handle_client_message for an active slot i
server_handle_client_message(i, g) ==
    LET c == players[i].socket
        bytes == Recv(c, SIZEOF_HEADER)
        header == Take(inb[c], SIZEOF_HEADER)
        rest == Drop(inb[c], SIZEOF_HEADER)
    IN CASE bytes = 0 -> FreeSlot(i) /\ UNCHANGED << inb, lastInput >>
         [] bytes = -1 -> UNCHANGED << players, player_count, cst, everFreed, inb, lastInput >>
         [] bytes = -2 -> FreeSlot(i) /\ UNCHANGED << inb, lastInput >>
         [] bytes > 0 /\ bytes # SIZEOF_HEADER ->
                /\ inb' = [inb EXCEPT ![c] = Drop(@, bytes)]
                /\ UNCHANGED << players, player_count, cst, everFreed, lastInput >>
         [] bytes = SIZEOF_HEADER /\ HdrType(header) = MSG_PLAYER_INPUT ->
                HandlePlayerInput(i, rest, g)
         [] bytes = SIZEOF_HEADER /\ HdrType(header) = MSG_DISCONNECT ->
                FreeSlot(i) /\ inb' = [inb EXCEPT ![c] = << >>] /\ UNCHANGED lastInput
         [] bytes = SIZEOF_HEADER /\ HdrType(header) = MSG_PING ->
                /\ inb' = [inb EXCEPT ![c] = Drop(rest, Min(SIZEOF_PING, Len(rest)))]
                /\ UNCHANGED << players, player_count, cst, everFreed, lastInput >>
         [] OTHER ->
                /\ inb' = [inb EXCEPT ![c] = rest]
                /\ UNCHANGED << players, player_count, cst, everFreed, lastInput >>

\* one call of server_handle_client_message from the for loop at server.c 721-727
ProcessSlot ==
    /\ srv_pc = "recv"
    /\ \E g \in GarbageInputs : server_handle_client_message(srv_i, g)
    /\ srv_i' = NextActive(players, srv_i + 1)
    /\ srv_pc' = IF NextActive(players, srv_i + 1) < MAX_PLAYERS THEN "recv" ELSE "world"
    /\ UNCHANGED << tick, world, hs_sock, backlog, ack, snap, peerVars, clientVars, acceptLog,
                    sendFailed >>

(* the world step, server.c 729-734 *)
\* server_update_physics, as far as it is carried: the step a ship makes is a
\* function of its state and of its input flags
server_update_physics(P) ==
    [i \in Slots |-> IF P[i].active THEN [P[i] EXCEPT !.kin = Append(@, P[i].input_flags)]
                                    ELSE P[i]]

\* get_weapon_cooldown
get_weapon_cooldown(weapon_type) ==
    CASE weapon_type = WEAPON_TYPE_SPREAD -> SPREAD_COOLDOWN
      [] weapon_type = WEAPON_TYPE_RAPID -> RAPID_COOLDOWN
      [] weapon_type = WEAPON_TYPE_LASER -> LASER_COOLDOWN
      [] OTHER -> SPREAD_COOLDOWN

\* a search that answers slot 0 when the table is full
server_find_free_bullet_or_first(B) ==
    IF \E k \in 1 .. Len(B) : ~B[k].active
    THEN (CHOOSE k \in 1 .. Len(B) : ~B[k].active /\ \A j \in 1 .. (k - 1) : B[j].active) - 1
    ELSE IF Len(B) < MAX_SERVER_BULLETS THEN Len(B) ELSE 0

\* server_find_free_bullet in table B: the lowest free slot, -1 when there is none
server_find_free_bullet(B) ==
    IF \E k \in 1 .. Len(B) : ~B[k].active
    THEN (CHOOSE k \in 1 .. Len(B) : ~B[k].active /\ \A j \in 1 .. (k - 1) : B[j].active) - 1
    ELSE IF Len(B) < MAX_SERVER_BULLETS THEN Len(B) ELSE -1

\* server_spawn_single_bullet on W = [bullets, bullet_count].  The position and
\* velocity of a projectile are a function of its owner's slot and state at the
\* shot (from), of its weapon and place in the volley (shot) and of the updates
\* it has gone through (moved)
server_spawn_single_bullet(W, player_id, from, shot, weapon_type) ==
    LET slot == server_find_free_bullet(W.bullets)
        bullet == [active |-> TRUE, owner_id |-> player_id % 256, weapon_type |-> weapon_type,
                   lifetime |-> BULLET_LIFETIME, from |-> from, shot |-> shot, moved |-> 0]
    IN IF slot < 0 THEN W
       ELSE [bullets |-> IF slot = Len(W.bullets) THEN Append(W.bullets, bullet)
                         ELSE [W.bullets EXCEPT ![slot + 1] = bullet],
             bullet_count |-> W.bullet_count + 1]

\* server_spawn_bullet: three projectiles for Spread, one for any other weapon
server_spawn_bullet(W, player_id, weapon, from) ==
    IF weapon = WEAPON_TYPE_SPREAD
    THEN server_spawn_single_bullet(
             server_spawn_single_bullet(
                 server_spawn_single_bullet(W, player_id, from, 0, weapon),
                 player_id, from, 1, weapon),
             player_id, from, 2, weapon)
    ELSE server_spawn_single_bullet(W, player_id, from, 0, weapon)

\* the cooldown of a slot after the decrement of server.c 499-501
Cooled(fire_cooldown, dt) ==
    IF fire_cooldown > 0 THEN F32(fire_cooldown - dt) ELSE fire_cooldown

\* the test of server.c 504
Fires(input_flags, fire_cooldown) ==
    (input_flags \div INPUT_FIRE) % 2 = 1 /\ fire_cooldown <= 0

\* the body of server_handle_firing's loop for slot i, on
\* S = [players, bullets, bullet_count]
FiringSlot(S, i) ==
    LET p == S.players[i]
        cooled == Cooled(p.fire_cooldown, DT)
        W == server_spawn_bullet([bullets |-> S.bullets, bullet_count |-> S.bullet_count],
                                 i, p.weapon, p.kin)
    IN IF ~p.active THEN S
       ELSE IF Fires(p.input_flags, cooled)
       THEN [players |-> [S.players EXCEPT ![i].fire_cooldown = get_weapon_cooldown(p.weapon)],
             bullets |-> W.bullets, bullet_count |-> W.bullet_count]
       ELSE [S EXCEPT !.players[i].fire_cooldown = cooled]

\* server_handle_firing from slot i on
RECURSIVE server_handle_firing(_, _)
server_handle_firing(S, i) ==
    IF i = MAX_PLAYERS THEN S ELSE server_handle_firing(FiringSlot(S, i), i + 1)

\* server_update_bullets on W = [bullets, bullet_count].  A ship spawns at
\* y = 400 and a projectile climbs at most 800 / 60 px per update, so that within
\* the iterations of a run no projectile comes to the edge of the field: of the
\* tests of server.c 469-471 the lifetime decides
server_update_bullets(W, dt) ==
    LET flown == [k \in 1 .. Len(W.bullets) |->
                    IF W.bullets[k].active
                    THEN [W.bullets[k] EXCEPT !.moved = @ + 1, !.lifetime = F32(@ - dt)]
                    ELSE W.bullets[k]]
        spent == {k \in 1 .. Len(W.bullets) : flown[k].active /\ flown[k].lifetime <= 0}
    IN [bullets |-> [k \in 1 .. Len(W.bullets) |->
                       IF k \in spent THEN [flown[k] EXCEPT !.active = FALSE] ELSE flown[k]],
        bullet_count |-> W.bullet_count - Cardinality(spent)]

\* server.c 729-734: physics, firing, projectiles
UpdateWorld ==
    /\ srv_pc = "world"
    /\ LET fired == server_handle_firing([players |-> server_update_physics(players),
                                          bullets |-> bullets,
                                          bullet_count |-> bullet_count], 0)
           flown == server_update_bullets([bullets |-> fired.bullets,
                                           bullet_count |-> fired.bullet_count], DT)
       IN /\ players' = fired.players
          /\ bullets' = flown.bullets
          /\ bullet_count' = flown.bullet_count
    /\ srv_pc' = "send"
    /\ UNCHANGED << player_count, tick, srv_i, hs_sock, backlog, cst, inb, ack, snap, peerVars,
                    clientVars, everFreed, acceptLog, sendFailed, lastInput >>

(* the broadcast *)
\* slots whose net_send_all can fail: the peer is gone (EPIPE, ECONNRESET)
CanFail == {i \in ActiveSlots : peer[players[i].socket] # "open"}

\* a loop that stops at the first failed send
RecipientsUntilFailure(F) == {i \in ActiveSlots \ F : \A j \in F : i < j}

\* the send loop at server.c 648-662 with F the slots whose send fails: the
\* slots that are sent the snapshot
Recipients(F) == ActiveSlots \ F

\* the members of a set of numbers in increasing order
RECURSIVE InOrder(_)
InOrder(S) ==
    IF S = {} THEN << >>
    ELSE LET m == CHOOSE x \in S : \A y \in S : x <= y
         IN << m >> \o InOrder(S \ {m})

\* (int16_t)v
Int16(v) == ((v + 32768) % 65536) - 32768

\* server.c 581-586: the active projectiles, counted up to MAX_SYNC_BULLETS
SyncBulletCount ==
    Min(Cardinality({k \in 1 .. Len(bullets) : bullets[k].active}), MAX_SYNC_BULLETS)

\* a size that leaves the projectile records out
StateSizePlayersOnly ==
    SIZEOF_GAMESTATE + player_count * SIZEOF_PLAYERSTATE

\* server.c 589-591
StateSize ==
    SIZEOF_GAMESTATE + player_count * SIZEOF_PLAYERSTATE + SyncBulletCount * SIZEOF_BULLETSTATE

\* server.c 611-627: the PlayerState records, one per active slot in index
\* order, each with the payload offset it is written at
PlayerStates ==
    LET order == InOrder(ActiveSlots)
    IN [idx \in 1 .. Len(order) |->
          [at |-> SIZEOF_GAMESTATE + (idx - 1) * SIZEOF_PLAYERSTATE,
           player_id |-> order[idx] % 256,
           kin |-> players[order[idx]].kin,
           health |-> Int16(players[order[idx]].health),
           weapon |-> players[order[idx]].weapon,
           flags |-> IF (players[order[idx]].input_flags \div INPUT_FIRE) % 2 = 1 THEN 1 ELSE 0]]

\* server.c 629-645: the BulletState records of the first SyncBulletCount active
\* projectiles in index order, written from the offset computed from
\* player_count
BulletStates ==
    LET order == Take(InOrder({k \in 1 .. Len(bullets) : bullets[k].active}), SyncBulletCount)
    IN [bidx \in 1 .. Len(order) |->
          [at |-> SIZEOF_GAMESTATE + player_count * SIZEOF_PLAYERSTATE
                      + (bidx - 1) * SIZEOF_BULLETSTATE,
           owner_id |-> bullets[order[bidx]].owner_id,
           from |-> bullets[order[bidx]].from,
           shot |-> bullets[order[bidx]].shot,
           moved |-> bullets[order[bidx]].moved,
           weapon_type |-> bullets[order[bidx]].weapon_type]]

\* the buffer with your_sequence as server.c 607 leaves it
SnapshotUnsigned(i) ==
    [type |-> MSG_GAME_STATE,
     length |-> StateSize % 65536,
     tick |-> tick,
     your_sequence |-> 0,
     player_count |-> player_count % 256,
     bullet_count |-> SyncBulletCount % 256,
     players |-> PlayerStates,
     bullets |-> BulletStates]

\* the buffer as it is sent to slot i: header, GameStateMsg, records
Snapshot(i) ==
    [type |-> MSG_GAME_STATE,
     length |-> StateSize % 65536,
     tick |-> tick,
     your_sequence |-> players[i].last_sequence,
     player_count |-> player_count % 256,
     bullet_count |-> SyncBulletCount % 256,
     players |-> PlayerStates,
     bullets |-> BulletStates]

\* server_send_state, with F the slots whose send fails
server_send_state(F) ==
    /\ snap' = [c \in Conns |->
                  IF \E i \in Recipients(F) : players[i].socket = c
                  THEN Snapshot(CHOOSE i \in Recipients(F) : players[i].socket = c)
                  ELSE snap[c]]
    /\ players' = [i \in Slots |->
                     IF i \in F THEN [players[i] EXCEPT !.active = FALSE] ELSE players[i]]
    /\ cst' = [c \in Conns |->
                 IF \E i \in F : players[i].socket = c THEN "closed" ELSE cst[c]]
    /\ player_count' = player_count - Cardinality(F)
    /\ everFreed' = (everFreed \/ F # {})
    /\ sendFailed' = F

\* server.c 736-739
SendState ==
    /\ srv_pc = "send"
    /\ IF player_count > 0
       THEN \E F \in SUBSET CanFail : server_send_state(F)
       ELSE UNCHANGED << snap, players, cst, player_count, everFreed, sendFailed >>
    /\ srv_pc' = "tick"
    /\ UNCHANGED << tick, world, srv_i, hs_sock, backlog, inb, ack, peerVars, clientVars,
                    acceptLog, lastInput >>

\* a counter that stands still while nobody is in the game
TickWhenPlayers ==
    /\ srv_pc = "tick"
    /\ tick' = IF player_count > 0 THEN tick + 1 ELSE tick
    /\ srv_pc' = "accept"
    /\ UNCHANGED << players, player_count, world, srv_i, hs_sock, backlog, cst, inb, ack, snap,
                    peerVars, clientVars, everFreed, acceptLog, sendFailed, lastInput >>

\* server.c 741-745
Tick ==
    /\ srv_pc = "tick"
    /\ tick' = tick + 1
    /\ srv_pc' = "accept"
    /\ UNCHANGED << players, player_count, world, srv_i, hs_sock, backlog, cst, inb, ack, snap,
                    peerVars, clientVars, everFreed, acceptLog, sendFailed, lastInput >>

Versions == {PROTOCOL_VERSION, PROTOCOL_VERSION + 1}
ConnectLengths == {SIZEOF_CONNECT, SIZEOF_CONNECT - 1}
FlagWeapons == {<< INPUT_UP, WEAPON_TYPE_SPREAD >>, << INPUT_FIRE, WEAPON_TYPE_RAPID >>}
BareTypes == {MSG_DISCONNECT, MSG_NONE}

ServerStep == Accept \/ Handshake \/ ProcessSlot \/ UpdateWorld \/ SendState \/ Tick

(* Spec: a session; accepted clients send PlayerInput messages *)
Init ==
    /\ ServerInit([conns |-> SessConns, msgs |-> MaxMsgs, faults |-> 0, bad |-> 0,
                   ticks |-> SessTicks])
    /\ ClientInit

Next ==
    \/ \E c \in Conns : PeerOpen(c)
    \/ \E c \in Conns : PeerSendConnect(c, PROTOCOL_VERSION, SIZEOF_CONNECT)
    \/ \E c \in Conns, fw \in FlagWeapons, q \in 0 .. MaxSeq :
          PeerSendInput(c, fw[1], fw[2], q, SIZEOF_INPUT)
    \/ Accept
    \/ Handshake
    \/ ProcessSlot
    \/ UpdateWorld
    \/ SendState
    \/ Tick

Spec == Init /\ [][Next]_vars

(* SpecJoin: connection attempts only, with no peer going away *)
InitJoin ==
    /\ ServerInit([conns |-> MaxConns, msgs |-> 0, faults |-> 0, bad |-> MaxBad,
                   ticks |-> MaxTick])
    /\ ClientInit

NextJoin ==
    \/ \E c \in Conns : PeerOpen(c)
    \/ \E c \in Conns, v \in Versions, l \in ConnectLengths : PeerSendConnect(c, v, l)
    \/ Accept
    \/ Handshake
    \/ ProcessSlot
    \/ UpdateWorld
    \/ SendState
    \/ Tick

SpecJoin == InitJoin /\ [][NextJoin]_vars

(* SpecFault: peers that go away, by close, reset or Disconnect *)
InitFault ==
    /\ ServerInit([conns |-> FaultConns, msgs |-> FaultMsgs, faults |-> MaxFaults, bad |-> 0,
                   ticks |-> FaultTicks])
    /\ ClientInit

NextFault ==
    \/ \E c \in Conns : PeerOpen(c)
    \/ \E c \in Conns : PeerSendConnect(c, PROTOCOL_VERSION, SIZEOF_CONNECT)
    \/ \E c \in Conns : PeerSendInput(c, INPUT_FIRE, WEAPON_TYPE_RAPID, used.msgs + 1, SIZEOF_INPUT)
    \/ \E c \in Conns, t \in BareTypes : PeerSendBare(c, t)
    \/ \E c \in Conns : PeerClose(c)
    \/ \E c \in Conns : PeerReset(c)
    \/ Accept
    \/ Handshake
    \/ ProcessSlot
    \/ UpdateWorld
    \/ SendState
    \/ Tick

SpecFault == InitFault /\ [][NextFault]_vars

(* the GameState as a client takes it in *)
\* the bytes a recv of one record size returns at payload offset at: the record
\* written there, something else when no record begins there
ChunkAt(recs, at) ==
    IF \E k \in 1 .. Len(recs) : recs[k].at = at
    THEN recs[CHOOSE k \in 1 .. Len(recs) : recs[k].at = at]
    ELSE [at |-> at]

\* network_client.c 189-241 when every recv returns the size asked for: the
\* locals state_hdr, players and bullets, with the projectile records read from
\* payload offset bullets_at on
DecodeFrom(m, bullets_at) ==
    LET n_players == Min(m.player_count, MAX_PLAYERS)
        n_bullets == Min(m.bullet_count, MAX_REMOTE_BULLETS)
        ps(i) == ChunkAt(m.players, SIZEOF_GAMESTATE + (i - 1) * SIZEOF_PLAYERSTATE)
        bs(i) == ChunkAt(m.bullets, bullets_at + (i - 1) * SIZEOF_BULLETSTATE)
    IN [tick |-> m.tick,
        your_sequence |-> m.your_sequence,
        players |-> [i \in 1 .. n_players |->
                       IF DOMAIN ps(i) = {"at"} THEN ps(i)
                       ELSE [active |-> 1, id |-> ps(i).player_id, kin |-> ps(i).kin,
                             health |-> ps(i).health, weapon |-> ps(i).weapon]],
        bullets |-> [i \in 1 .. n_bullets |->
                       IF DOMAIN bs(i) = {"at"} THEN bs(i)
                       ELSE [active |-> 1, owner_id |-> bs(i).owner_id, from |-> bs(i).from,
                             shot |-> bs(i).shot, moved |-> bs(i).moved,
                             weapon_type |-> bs(i).weapon_type]]]

\* a reader that takes the player array to be MAX_PLAYERS long
DecodeFixedLayout(m) ==
    DecodeFrom(m, SIZEOF_GAMESTATE + MAX_PLAYERS * SIZEOF_PLAYERSTATE)

\* the reads follow one another on the stream: the projectile records are read
\* from where the last player record read ended
DecodeGameState(m) ==
    DecodeFrom(m, SIZEOF_GAMESTATE + Min(m.player_count, MAX_PLAYERS) * SIZEOF_PLAYERSTATE)

\* shared_state_update_players and shared_state_update_bullets on the decoded
\* message: what SharedState holds after the two calls
ClientHolds(m) ==
    LET d == DecodeGameState(m)
    IN [server_tick |-> d.tick,
        player_count |-> Min(Len(d.players), MAX_PLAYERS),
        players |-> Take(d.players, Min(Len(d.players), MAX_PLAYERS)),
        bullet_count |-> Min(Len(d.bullets), MAX_REMOTE_BULLETS),
        bullets |-> Take(d.bullets, Min(Len(d.bullets), MAX_REMOTE_BULLETS))]

(* SpecBarrage: clients that join and fire over a field left full of projectiles *)
\* a projectile's lifetime after m updates, 2.0f less m times dt as the FPU
\* computes it, for the ages of the volleys in flight
LifetimeAfter(m) ==
    CASE m = 15 -> 939524224
      [] m = 35 -> 760567424
      [] m = 55 -> 581610624
      [] m = 75 -> 402653824
      [] m = 95 -> 223696944

\* Four ships that fired Spread from the bottom of the field, every 20th
\* iteration, and have left since: the volleys still in flight are 15, 35, 55, ...
\* updates old, twelve projectiles each, in the slots they took one after the
\* other.  The state of their owners at the shot is not followed.
BarrageTable ==
    [k \in 1 .. Barrage |->
        [active |-> TRUE, owner_id |-> (k - 1) % MAX_PLAYERS, weapon_type |-> WEAPON_TYPE_SPREAD,
         lifetime |-> LifetimeAfter(15 + 20 * ((Barrage - k) \div 12)),
         from |-> << >>, shot |-> ((k - 1) \div MAX_PLAYERS) % 3,
         moved |-> 15 + 20 * ((Barrage - k) \div 12)]]

FireWeapons == {WEAPON_TYPE_SPREAD, WEAPON_TYPE_RAPID}

InitBarrage ==
    /\ lim = [conns |-> FaultConns, msgs |-> FaultMsgs, faults |-> 0, bad |-> 0,
              ticks |-> BarrageTicks]
    /\ used = [msgs |-> 0, faults |-> 0, bad |-> 0]
    /\ players = [i \in Slots |-> ZeroPlayer]
    /\ player_count = 0
    /\ tick = 0
    /\ bullets = BarrageTable
    /\ bullet_count = Barrage
    /\ srv_pc = "accept"
    /\ srv_i = 0
    /\ hs_sock = NoSock
    /\ inherit_nb \in BOOLEAN
    /\ backlog = << >>
    /\ cst = [c \in 1 .. FaultConns |-> "idle"]
    /\ peer = [c \in 1 .. FaultConns |-> "open"]
    /\ inb = [c \in 1 .. FaultConns |-> << >>]
    /\ ack = [c \in 1 .. FaultConns |-> << >>]
    /\ snap = [c \in 1 .. FaultConns |-> << >>]
    /\ everFreed = FALSE
    /\ acceptLog = << >>
    /\ sendFailed = {}
    /\ lastInput = << >>
    /\ ClientInit

NextBarrage ==
    \/ \E c \in Conns : PeerOpen(c)
    \/ \E c \in Conns : PeerSendConnect(c, PROTOCOL_VERSION, SIZEOF_CONNECT)
    \/ \E c \in Conns, w \in FireWeapons :
          PeerSendInput(c, INPUT_FIRE, w, used.msgs + 1, SIZEOF_INPUT)
    \/ Accept
    \/ Handshake
    \/ ProcessSlot
    \/ UpdateWorld
    \/ SendState
    \/ Tick

SpecBarrage == InitBarrage /\ [][NextBarrage]_vars


(* client: the threads *)
\* the places where a thread stands before pthread_mutex_lock
\* the positions at which a thread calls pthread_mutex_lock, and those between
\* the lock and the unlock of shared_state_set_input and shared_state_get_input
MainLocked == {"set_input", "copy_players", "copy_bullets", "my_position", "draw_ui"}
MainInside == {"set_weapon", "set_sequence"}
AgentInside == {"get_sequence", "get_weapon"}
AgentLocked == {"start", "fail_status", "set_id", "set_connected", "lost_status",
                "pub_players", "pub_bullets", "get_input", "stats"}

\* the network thread has been created and has not returned
AgentLive == agent_pc \notin {"none", "done", "crashed"}

\* the network thread runs on memory that is still there, in a process that is
\* still there
AgentSound == main_pc # "exit" /\ ~nc.freed /\ mutex # "destroyed"

\* pthread_mutex_lock by the main thread; game.locked_at keeps the operation
\* that took the lock
MainLock ==
    /\ main_pc \in MainLocked
    /\ mutex = "free"
    /\ mutex' = "main"
    /\ game' = [game EXCEPT !.locked_at = main_pc]
    /\ UNCHANGED << serverSide, nc, sh, agent_pc, agent_loc, main_pc, link, bare, early, loopExit >>

\* pthread_mutex_lock by the network thread; agent_loc.locked_at keeps the
\* operation that took the lock
AgentLock ==
    /\ agent_pc \in AgentLocked
    /\ AgentSound
    /\ mutex = "free"
    /\ mutex' = "agent"
    /\ agent_loc' = [agent_loc EXCEPT !.locked_at = agent_pc]
    /\ UNCHANGED << serverSide, nc, sh, agent_pc, main_pc, game, link, bare, early, loopExit >>

(* main thread, main.c 491-577 *)
mainOnly == << serverSide, agent_loc, link, loopExit >>

\* net_client_connect: running = 1, pthread_create
net_client_connect ==
    /\ main_pc = "connect"
    /\ \E created \in BOOLEAN :
          /\ nc' = [nc EXCEPT !.running = created]
          /\ agent_pc' = IF created THEN "start" ELSE "none"
    /\ main_pc' = "frame"
    /\ UNCHANGED << mainOnly, sh, mutex, game, bare, early >>

\* while (!WindowShouldClose()): one more frame
FrameBegin ==
    /\ main_pc = "frame"
    /\ game.frame_count < MaxFrames
    /\ game' = [game EXCEPT !.frame_count = @ + 1]
    /\ main_pc' = "set_input"
    /\ UNCHANGED << mainOnly, nc, sh, mutex, agent_pc, bare, early >>

\* the window is closed: main goes to its cleanup
WindowClose ==
    /\ main_pc = "frame"
    /\ main_pc' = "disc_stop"
    /\ UNCHANGED << mainOnly, nc, sh, mutex, agent_pc, game, bare, early >>

\* state->input_sequence++ of shared_state_set_input; input_sequence is a
\* uint32_t that stays far from its wrap within MaxFrames frames
NextSequenceSame(input_sequence) == input_sequence
NextSequence(input_sequence) == input_sequence + 1

\* shared_state_set_input, after its lock: state->input_to_send = input_flags.
\* game.input keeps the arguments of the call and the counter it found.
shared_state_set_input(input_flags, weapon_type) ==
    /\ main_pc = "set_input"
    /\ mutex = "main"
    /\ sh' = [sh EXCEPT !.input_to_send = input_flags]
    /\ game' = [game EXCEPT !.input = [flags |-> input_flags, weapon |-> weapon_type,
                                       before |-> sh.input_sequence]]
    /\ main_pc' = "set_weapon"
    /\ UNCHANGED << mainOnly, nc, mutex, agent_pc, bare, early >>

\* shared_state_set_input: state->weapon_type = weapon_type
SetInputWeapon ==
    /\ main_pc = "set_weapon"
    /\ mutex = "main"
    /\ sh' = [sh EXCEPT !.weapon_type = game.input.weapon]
    /\ main_pc' = "set_sequence"
    /\ UNCHANGED << mainOnly, nc, mutex, agent_pc, game, bare, early >>

\* shared_state_set_input returning with the mutex still locked
SetInputSequenceKeepLock ==
    /\ main_pc = "set_sequence"
    /\ mutex = "main"
    /\ sh' = [sh EXCEPT !.input_sequence = NextSequence(@)]
    /\ game' = [game EXCEPT !.last_set = << sh'.input_to_send, sh'.weapon_type,
                                            sh'.input_sequence >>,
                            !.set_calls = @ + 1]
    /\ main_pc' = "copy_players"
    /\ UNCHANGED << mainOnly, nc, mutex, agent_pc, bare, early >>

\* shared_state_set_input: state->input_sequence++, then the unlock.
\* game.last_set is the triple the call leaves behind.
SetInputSequence ==
    /\ main_pc = "set_sequence"
    /\ mutex = "main"
    /\ sh' = [sh EXCEPT !.input_sequence = NextSequence(@)]
    /\ game' = [game EXCEPT !.last_set = << sh'.input_to_send, sh'.weapon_type,
                                            sh'.input_sequence >>,
                            !.set_calls = @ + 1]
    /\ mutex' = "free"
    /\ main_pc' = "copy_players"
    /\ UNCHANGED << mainOnly, nc, agent_pc, bare, early >>

\* shared_state_copy_players
shared_state_copy_players ==
    /\ main_pc = "copy_players"
    /\ mutex = "main"
    /\ game' = [game EXCEPT !.remote_players = sh.players,
                            !.remote_player_count = sh.player_count]
    /\ mutex' = "free"
    /\ main_pc' = "copy_bullets"
    /\ UNCHANGED << mainOnly, nc, sh, agent_pc, bare, early >>

\* shared_state_copy_bullets
shared_state_copy_bullets ==
    /\ main_pc = "copy_bullets"
    /\ mutex = "main"
    /\ game' = [game EXCEPT !.remote_bullets = sh.bullets,
                            !.remote_bullet_count = sh.bullet_count]
    /\ mutex' = "free"
    /\ main_pc' = "my_position"
    /\ UNCHANGED << mainOnly, nc, sh, agent_pc, bare, early >>

\* shared_state_get_my_position: reads my_id and the players under the lock; the
\* local ship's position is not carried by this specification
shared_state_get_my_position ==
    /\ main_pc = "my_position"
    /\ mutex = "main"
    /\ mutex' = "free"
    /\ main_pc' = "draw_bullets"
    /\ UNCHANGED << mainOnly, nc, sh, agent_pc, game, bare, early >>

\* draw_remote_bullets: every active copied bullet is compared with
\* game->shared.my_id, read without the lock (main.c 318)
draw_remote_bullets ==
    /\ main_pc = "draw_bullets"
    /\ bare' = IF game.remote_bullet_count > 0 /\ game.remote_bullets.n > 0
               THEN bare \cup {<< "main", "my_id" >>}
               ELSE bare
    /\ main_pc' = "draw_players"
    /\ UNCHANGED << mainOnly, nc, sh, mutex, agent_pc, game, early >>

\* draw_remote_players: every active copied player is compared with
\* game->shared.my_id, read without the lock (main.c 290)
draw_remote_players ==
    /\ main_pc = "draw_players"
    /\ bare' = IF game.remote_player_count > 0 /\ game.remote_players.n > 0
               THEN bare \cup {<< "main", "my_id" >>}
               ELSE bare
    /\ main_pc' = "draw_ui"
    /\ UNCHANGED << mainOnly, nc, sh, mutex, agent_pc, game, early >>

\* draw_ui: shared_state_get_status
shared_state_get_status ==
    /\ main_pc = "draw_ui"
    /\ mutex = "main"
    /\ mutex' = "free"
    /\ main_pc' = "frame"
    /\ UNCHANGED << mainOnly, nc, sh, agent_pc, game, bare, early >>

(* main's cleanup: net_client_disconnect, then net_client_destroy (which calls
   net_client_disconnect again and frees), then shared_state_destroy *)
\* the owner reclaims resource r: noted when the network thread has not returned
Reclaim(r) == early' = IF AgentLive THEN early \cup {r} ELSE early

\* net_client_disconnect, the check of client->running and the clearing of it
OwnerStop ==
    /\ main_pc \in {"disc_stop", "dest_stop"}
    /\ IF nc.running
       THEN /\ nc' = [nc EXCEPT !.running = FALSE]
            /\ main_pc' = IF main_pc = "disc_stop" THEN "disc_join" ELSE "dest_join"
       ELSE /\ main_pc' = IF main_pc = "disc_stop" THEN "disc_close" ELSE "dest_close"
            /\ UNCHANGED nc
    /\ UNCHANGED << mainOnly, sh, mutex, agent_pc, game, bare, early >>

\* pthread_join returns once the network thread has returned
OwnerJoin ==
    /\ main_pc \in {"disc_join", "dest_join"}
    /\ agent_pc = "done"
    /\ main_pc' = IF main_pc = "disc_join" THEN "disc_close" ELSE "dest_close"
    /\ UNCHANGED << mainOnly, nc, sh, mutex, agent_pc, game, bare, early >>

\* net_client_disconnect, "close socket if still open"; net_client_destroy goes
\* on to free(client)
OwnerClose ==
    /\ main_pc \in {"disc_close", "dest_close"}
    /\ IF nc.socket >= 0
       THEN /\ nc' = [nc EXCEPT !.socket = INVALID_SOCKET]
            /\ Reclaim("socket")
       ELSE UNCHANGED << nc, early >>
    /\ main_pc' = IF main_pc = "disc_close" THEN "dest_stop" ELSE "free"
    /\ UNCHANGED << mainOnly, sh, mutex, agent_pc, game, bare >>

\* free(client) in net_client_destroy
OwnerFree ==
    /\ main_pc = "free"
    /\ nc' = [nc EXCEPT !.freed = TRUE]
    /\ Reclaim("client")
    /\ main_pc' = "bridge_destroy"
    /\ UNCHANGED << mainOnly, sh, mutex, agent_pc, game, bare >>

\* shared_state_destroy: pthread_mutex_destroy; main then returns and the process ends
shared_state_destroy ==
    /\ main_pc = "bridge_destroy"
    /\ mutex' = "destroyed"
    /\ Reclaim("bridge")
    /\ main_pc' = "exit"
    /\ UNCHANGED << mainOnly, nc, sh, agent_pc, game, bare >>

(* network thread, network_thread_func *)
agentOnly == << serverSide, main_pc, game, bare, early >>

\* shared_state_set_status, between lock and unlock
SetStatus(report) == sh' = [sh EXCEPT !.status = report[1], !.message = report[2]]

\* network_client.c 76
AgentStart ==
    /\ agent_pc = "start" /\ AgentSound
    /\ mutex = "agent"
    /\ SetStatus(<< NET_CONNECTING, "Connecting..." >>)
    /\ mutex' = "free"
    /\ agent_pc' = "connect"
    /\ UNCHANGED << agentOnly, nc, agent_loc, link, loopExit >>

\* the thread takes a failure exit: the report it will publish
Fail(report) ==
    /\ agent_loc' = [agent_loc EXCEPT !.report = report]
    /\ agent_pc' = "fail_status"

\* network_client.c 78-85: net_connect_to_server
AgentConnect ==
    /\ agent_pc = "connect" /\ AgentSound
    /\ \/ /\ nc' = [nc EXCEPT !.socket = ClientSock]
          /\ agent_pc' = "send_connect"
          /\ UNCHANGED agent_loc
       \/ /\ Fail(<< NET_ERROR, "Failed to connect" >>)
          /\ UNCHANGED nc
    /\ UNCHANGED << agentOnly, sh, mutex, link, loopExit >>

\* network_client.c 87-112: the Connect is sent
AgentSendConnect ==
    /\ agent_pc = "send_connect" /\ AgentSound
    /\ \/ /\ agent_pc' = "recv_ack"
          /\ link' = [link EXCEPT !.sent = EncHeader(MSG_CONNECT, SIZEOF_CONNECT)
                                             \o EncConnect(PROTOCOL_VERSION)]
          /\ UNCHANGED agent_loc
       \/ /\ Fail(<< NET_ERROR, "Failed to send connect" >>)
          /\ UNCHANGED link
    /\ UNCHANGED << agentOnly, nc, sh, mutex, loopExit >>

\* what the blocking reads of the ConnectAck can come back with
AckOutcomes == {"short_header", "wrong_type", "short_ack", "full", "version", "accept"}

\* the two texts the other way round
RejectMessageSwapped(reason) == IF reason = 0 THEN "Version mismatch" ELSE "Server full"

\* network_client.c 155: (ack.reason == 0) ? "Server full" : "Version mismatch"
RejectMessage(reason) == IF reason = 0 THEN "Server full" ELSE "Version mismatch"

\* the ConnectAckMsg a rejecting server sends, server.c 211 and 223
AckRead(o) ==
    [success |-> 0, player_id |-> 0,
     reason |-> IF o = "full" THEN REASON_FULL ELSE REASON_VERSION]

\* a failed handshake reported as a lost connection
AckReportAsClosed(o) == << NET_DISCONNECTED, "Server closed" >>

AckReport(o) ==
    CASE o = "short_header" -> << NET_ERROR, "No response from server" >>
      [] o = "wrong_type" -> << NET_ERROR, "Unexpected response" >>
      [] o = "short_ack" -> << NET_ERROR, "Incomplete ACK" >>
      [] o = "full" -> << NET_ERROR, RejectMessage(AckRead(o).reason) >>
      [] o = "version" -> << NET_ERROR, RejectMessage(AckRead(o).reason) >>
PlayerIds == {0, 1}

\* network_client.c 114-167: the blocking handshake
AgentRecvAck ==
    /\ agent_pc = "recv_ack" /\ AgentSound
    /\ \E o \in AckOutcomes :
          IF o = "accept"
          THEN \E id \in PlayerIds :
                  /\ nc' = [nc EXCEPT !.player_id = id]
                  /\ agent_pc' = "set_id"
                  /\ agent_loc' = [agent_loc EXCEPT
                                     !.ack = [success |-> 1, player_id |-> id, reason |-> 0]]
          ELSE /\ agent_loc' = [agent_loc EXCEPT
                                  !.report = AckReport(o),
                                  !.ack = IF o \in {"full", "version"} THEN AckRead(o) ELSE @]
               /\ agent_pc' = "fail_status"
               /\ UNCHANGED nc
    /\ UNCHANGED << agentOnly, sh, mutex, link, loopExit >>

\* the shared_state_set_status(NET_ERROR, ...) of a failure exit
AgentFailStatus ==
    /\ agent_pc = "fail_status" /\ AgentSound
    /\ mutex = "agent"
    /\ SetStatus(agent_loc.report)
    /\ mutex' = "free"
    /\ agent_pc' = "fail_flag"
    /\ UNCHANGED << agentOnly, nc, agent_loc, link, loopExit >>

\* client->running = 0 on a failure exit
AgentFailFlag ==
    /\ agent_pc = "fail_flag" /\ AgentSound
    /\ nc' = [nc EXCEPT !.running = FALSE]
    /\ agent_pc' = "fail_close"
    /\ UNCHANGED << agentOnly, sh, mutex, agent_loc, link, loopExit >>

\* net_close, client->socket = -1, return NULL on a failure exit (no socket
\* was opened when net_connect_to_server failed)
AgentFailClose ==
    /\ agent_pc = "fail_close" /\ AgentSound
    /\ nc' = [nc EXCEPT !.socket = INVALID_SOCKET]
    /\ agent_pc' = "done"
    /\ UNCHANGED << agentOnly, sh, mutex, agent_loc, link, loopExit >>

\* a handshake that leaves my_id as shared_state_init set it
AgentSetIdSkipped ==
    /\ agent_pc = "set_id" /\ AgentSound
    /\ mutex = "agent"
    /\ mutex' = "free"
    /\ agent_pc' = "set_connected"
    /\ UNCHANGED << agentOnly, nc, sh, agent_loc, link, loopExit >>

\* network_client.c 168-170
AgentSetId ==
    /\ agent_pc = "set_id" /\ AgentSound
    /\ mutex = "agent"
    /\ sh' = [sh EXCEPT !.my_id = nc.player_id]
    /\ mutex' = "free"
    /\ agent_pc' = "set_connected"
    /\ UNCHANGED << agentOnly, nc, agent_loc, link, loopExit >>

\* network_client.c 171-175: Connected is published, the socket made non-blocking
AgentSetConnected ==
    /\ agent_pc = "set_connected" /\ AgentSound
    /\ mutex = "agent"
    /\ SetStatus(<< NET_CONNECTED, "Connected!" >>)
    /\ mutex' = "free"
    /\ agent_pc' = "loop"
    /\ UNCHANGED << agentOnly, nc, agent_loc, link, loopExit >>

\* while (client->running), network_client.c 178
AgentLoop ==
    /\ agent_pc = "loop" /\ AgentSound
    /\ IF nc.running
       THEN /\ link.polls < MaxPolls
            /\ link' = [link EXCEPT !.polls = @ + 1]
            /\ agent_pc' = "recv"
            /\ UNCHANGED loopExit
       ELSE /\ agent_pc' = "cleanup"
            /\ loopExit' = "flag"
            /\ UNCHANGED link
    /\ UNCHANGED << agentOnly, nc, sh, mutex, agent_loc >>

\* the GameState messages the server sends: << player records, bullet records >>
SnapShapes == {<< 1, 0 >>, << 1, 1 >>}

\* network_client.c 179-280: the non-blocking read of one message.  Nothing has
\* arrived (EAGAIN), a whole GameState has arrived and is decoded into the
\* thread's arrays, the server has closed (recv returns 0), or recv fails.
AgentRecv ==
    /\ agent_pc = "recv" /\ AgentSound
    /\ \/ /\ agent_pc' = "get_input"
          /\ UNCHANGED << agent_loc, link >>
       \/ /\ link.snaps < MaxSnaps
          /\ \E shape \in SnapShapes :
                agent_loc' = [agent_loc EXCEPT
                                !.players = [n |-> Min(shape[1], MAX_PLAYERS), of |-> link.snaps + 1],
                                !.bullets = [n |-> Min(shape[2], MAX_REMOTE_BULLETS), of |-> link.snaps + 1],
                                !.tick = link.snaps + 1]
          /\ link' = [link EXCEPT !.snaps = @ + 1]
          /\ agent_pc' = "pub_players"
       \/ /\ agent_loc' = [agent_loc EXCEPT !.report = << NET_DISCONNECTED, "Server closed" >>]
          /\ agent_pc' = "lost_status"
          /\ UNCHANGED link
       \/ /\ agent_loc' = [agent_loc EXCEPT !.report = << NET_ERROR, "Connection error" >>]
          /\ agent_pc' = "lost_status"
          /\ UNCHANGED link
    /\ UNCHANGED << agentOnly, nc, sh, mutex, loopExit >>

\* shared_state_update_players, between lock and unlock
shared_state_update_players ==
    /\ agent_pc = "pub_players" /\ AgentSound
    /\ mutex = "agent"
    /\ sh' = [sh EXCEPT !.players = agent_loc.players,
                        !.player_count = Min(agent_loc.players.n, MAX_PLAYERS),
                        !.server_tick = agent_loc.tick,
                        !.packets_received = @ + 1]
    /\ mutex' = "free"
    /\ agent_pc' = "pub_bullets"
    /\ UNCHANGED << agentOnly, nc, agent_loc, link, loopExit >>

\* shared_state_update_bullets, between lock and unlock
shared_state_update_bullets ==
    /\ agent_pc = "pub_bullets" /\ AgentSound
    /\ mutex = "agent"
    /\ sh' = [sh EXCEPT !.bullets = agent_loc.bullets,
                        !.bullet_count = Min(agent_loc.bullets.n, MAX_REMOTE_BULLETS)]
    /\ mutex' = "free"
    /\ agent_pc' = "get_input"
    /\ UNCHANGED << agentOnly, nc, agent_loc, link, loopExit >>

\* the shared_state_set_status of network_client.c 270 and 276
AgentLostStatus ==
    /\ agent_pc = "lost_status" /\ AgentSound
    /\ mutex = "agent"
    /\ SetStatus(agent_loc.report)
    /\ mutex' = "free"
    /\ agent_pc' = "lost_flag"
    /\ UNCHANGED << agentOnly, nc, agent_loc, link, loopExit >>

\* client->running = 0; break
\* a loop left by break alone, the flag staying set
AgentLostFlagKeepsRunning ==
    /\ agent_pc = "lost_flag" /\ AgentSound
    /\ loopExit' = IF agent_loc.report[1] = NET_DISCONNECTED THEN "closed" ELSE "error"
    /\ agent_pc' = "cleanup"
    /\ UNCHANGED << agentOnly, nc, sh, mutex, agent_loc, link >>

AgentLostFlag ==
    /\ agent_pc = "lost_flag" /\ AgentSound
    /\ nc' = [nc EXCEPT !.running = FALSE]
    /\ loopExit' = IF agent_loc.report[1] = NET_DISCONNECTED THEN "closed" ELSE "error"
    /\ agent_pc' = "cleanup"
    /\ UNCHANGED << agentOnly, sh, mutex, agent_loc, link >>

\* shared_state_get_input, after its lock: flags = state->input_to_send
shared_state_get_input ==
    /\ agent_pc = "get_input" /\ AgentSound
    /\ mutex = "agent"
    /\ agent_loc' = [agent_loc EXCEPT !.flags = sh.input_to_send]
    /\ agent_pc' = "get_sequence"
    /\ UNCHANGED << agentOnly, nc, sh, mutex, link, loopExit >>

\* shared_state_get_input: *sequence = state->input_sequence
GetInputSequence ==
    /\ agent_pc = "get_sequence" /\ AgentSound
    /\ mutex = "agent"
    /\ agent_loc' = [agent_loc EXCEPT !.sequence = sh.input_sequence]
    /\ agent_pc' = "get_weapon"
    /\ UNCHANGED << agentOnly, nc, sh, mutex, link, loopExit >>

\* shared_state_get_input: *weapon_type = state->weapon_type, then the unlock
GetInputWeapon ==
    /\ agent_pc = "get_weapon" /\ AgentSound
    /\ mutex = "agent"
    /\ agent_loc' = [agent_loc EXCEPT !.weapon = sh.weapon_type, !.get_calls = @ + 1]
    /\ mutex' = "free"
    /\ agent_pc' = "send_input"
    /\ UNCHANGED << agentOnly, nc, sh, link, loopExit >>

\* thread_send_input after shared_state_get_input: the header and the
\* PlayerInput built from the three values it returned, by net_send_all
thread_send_input ==
    /\ agent_pc = "send_input" /\ AgentSound
    /\ link' = [link EXCEPT !.sent = EncHeader(MSG_PLAYER_INPUT, SIZEOF_INPUT)
                                       \o EncInput(nc.player_id, agent_loc.flags,
                                                   agent_loc.weapon, agent_loc.sequence),
                            !.prev = link.sent]
    /\ agent_pc' = "stats"
    /\ UNCHANGED << agentOnly, nc, sh, mutex, agent_loc, loopExit >>

\* thread_send_input, network_client.c 54-56: packets_sent++ under the lock
\* statistics updated with the mutex kept
AgentStatsKeepsLock ==
    /\ agent_pc = "stats" /\ AgentSound
    /\ mutex = "agent"
    /\ sh' = [sh EXCEPT !.packets_sent = @ + 1]
    /\ agent_pc' = "loop"
    /\ UNCHANGED << agentOnly, nc, mutex, agent_loc, link, loopExit >>

AgentStats ==
    /\ agent_pc = "stats" /\ AgentSound
    /\ mutex = "agent"
    /\ sh' = [sh EXCEPT !.packets_sent = @ + 1]
    /\ mutex' = "free"
    /\ agent_pc' = "loop"
    /\ UNCHANGED << agentOnly, nc, agent_loc, link, loopExit >>

\* network_client.c 289-296: the socket is closed if it is open; return NULL
AgentCleanup ==
    /\ agent_pc = "cleanup" /\ AgentSound
    /\ nc' = [nc EXCEPT !.socket = INVALID_SOCKET]
    /\ agent_pc' = "done"
    /\ UNCHANGED << agentOnly, sh, mutex, agent_loc, link, loopExit >>

\* the thread goes on after free(client) or pthread_mutex_destroy: its reads and
\* writes are undefined; it gets to its return, or the process dies
AgentUndefined ==
    /\ AgentLive
    /\ main_pc # "exit"
    /\ nc.freed \/ mutex = "destroyed"
    /\ \/ agent_pc' = "done" /\ UNCHANGED main_pc
       \/ agent_pc' = "crashed" /\ main_pc' = "exit"
    /\ UNCHANGED << serverSide, nc, sh, mutex, agent_loc, game, link, bare, early, loopExit >>

(* SpecClient: the module-5 client, its main thread and its network thread *)
InitClient ==
    /\ ServerInit([conns |-> 0, msgs |-> 0, faults |-> 0, bad |-> 0, ticks |-> 0])
    /\ ClientInit

\* the steps that need nothing from the server to be taken
ClientSteps ==
    \/ MainLock
    \/ AgentLock
    \/ net_client_connect
    \/ FrameBegin
    \/ WindowClose
    \/ \E fw \in FlagWeapons : shared_state_set_input(fw[1], fw[2])
    \/ SetInputWeapon
    \/ SetInputSequence
    \/ shared_state_copy_players
    \/ shared_state_copy_bullets
    \/ shared_state_get_my_position
    \/ draw_remote_bullets
    \/ draw_remote_players
    \/ shared_state_get_status
    \/ OwnerStop
    \/ OwnerJoin
    \/ OwnerClose
    \/ OwnerFree
    \/ shared_state_destroy
    \/ AgentStart
    \/ AgentConnect
    \/ AgentSendConnect
    \/ AgentFailStatus
    \/ AgentFailFlag
    \/ AgentFailClose
    \/ AgentSetId
    \/ AgentSetConnected
    \/ AgentLoop
    \/ AgentRecv
    \/ shared_state_update_players
    \/ shared_state_update_bullets
    \/ AgentLostStatus
    \/ AgentLostFlag
    \/ shared_state_get_input
    \/ GetInputSequence
    \/ GetInputWeapon
    \/ thread_send_input
    \/ AgentStats
    \/ AgentCleanup
    \/ AgentUndefined

NextClient == ClientSteps \/ AgentRecvAck

SpecClient == InitClient /\ [][NextClient]_vars

\* Both threads are scheduled; the blocking reads of the ConnectAck
\* (net_recv_all on a socket without a timeout) return when the server has
\* answered or closed, which nothing in the client brings about.
SpecClientLive == SpecClient /\ WF_vars(ClientSteps)

(* ----------------- network.c: net_send_all, net_recv_all --------------- *)
\* the server before any peer, for the runs of a single function
ServerIdle == ServerInit([conns |-> 0, msgs |-> 0, faults |-> 0, bad |-> 0, ticks |-> 0])

benchOnly == << serverState, clientState, gun >>

\* a payload of n bytes, each byte telling its place
Payload(n) == [k \in 1 .. n |-> k]

\* a window that does not move with total_sent
SendWindowFromStart(data, total_sent, k) == SubSeq(data, 1, k)

\* send(socket, ptr + total_sent, length - total_sent, 0) taking k bytes: the
\* bytes that go out
SendWindow(data, total_sent, k) == SubSeq(data, total_sent + 1, total_sent + k)

\* net_send_all(socket, data, length) is entered
InitSend ==
    /\ ServerIdle
    /\ ClientStart
    /\ gun = [fn |-> "none"]
    /\ io \in {[fn |-> "send", data |-> Payload(n), length |-> n, total_sent |-> 0,
                wire |-> << >>, calls |-> << >>, interrupts |-> 0, fault |-> FALSE,
                pc |-> "loop", ret |-> 0] : n \in 0 .. MaxPayload}

\* while (total_sent < length) fails: return total_sent
SendReturn ==
    /\ io.fn = "send" /\ io.pc = "loop"
    /\ ~(io.total_sent < io.length)
    /\ io' = [io EXCEPT !.pc = "done", !.ret = io.total_sent]
    /\ UNCHANGED benchOnly

\* send() takes k of the bytes offered
SendAccepts(k) ==
    /\ io.fn = "send" /\ io.pc = "loop"
    /\ io.total_sent < io.length
    /\ k \in 1 .. (io.length - io.total_sent)
    /\ io' = [io EXCEPT !.wire = @ \o SendWindow(io.data, io.total_sent, k),
                        !.calls = Append(@, k),
                        !.total_sent = @ + k]
    /\ UNCHANGED benchOnly

\* send() returns -1 with errno EINTR: continue
SendInterrupted ==
    /\ io.fn = "send" /\ io.pc = "loop"
    /\ io.total_sent < io.length
    /\ io.interrupts < MaxIntr
    /\ io' = [io EXCEPT !.interrupts = @ + 1]
    /\ UNCHANGED benchOnly

\* send() returns -1 with another errno: return -1
SendFails ==
    /\ io.fn = "send" /\ io.pc = "loop"
    /\ io.total_sent < io.length
    /\ io' = [io EXCEPT !.pc = "done", !.ret = -1, !.fault = TRUE]
    /\ UNCHANGED benchOnly

\* send() returns 0: return total_sent
SendZero ==
    /\ io.fn = "send" /\ io.pc = "loop"
    /\ io.total_sent < io.length
    /\ io' = [io EXCEPT !.pc = "done", !.ret = io.total_sent, !.fault = TRUE]
    /\ UNCHANGED benchOnly

NextSend ==
    \/ SendReturn
    \/ \E k \in 1 .. MaxPayload : SendAccepts(k)
    \/ SendInterrupted
    \/ SendFails
    \/ SendZero

\* the caller's thread keeps running until the call returns
SpecSend == InitSend /\ [][NextSend]_vars /\ WF_vars(NextSend)

\* what net_recv_all returns when recv() finds nothing to read, as -1
RecvAgainAsError(total_received) == -1

\* errno == EAGAIN || errno == EWOULDBLOCK: return total_received
RecvAgain(total_received) == total_received

\* net_recv_all(socket, buffer, length) is entered.  The peer sends the bytes
\* of stream and may then close; arrived counts the bytes that have come in
InitRecv ==
    /\ ServerIdle
    /\ ClientStart
    /\ gun = [fn |-> "none"]
    /\ io \in {[fn |-> "recv", stream |-> Payload(n), arrived |-> 0, closed |-> FALSE,
                nonblocking |-> nb, length |-> l, total_received |-> 0, buffer |-> << >>,
                reads |-> 0, interrupts |-> 0, pc |-> "loop", end |-> "", ret |-> 0] :
               n \in 0 .. MaxPayload, l \in 0 .. MaxPayload, nb \in BOOLEAN}

\* k more bytes of the stream come in
PeerSends(k) ==
    /\ io.fn = "recv" /\ io.pc = "loop"
    /\ ~io.closed
    /\ k \in 1 .. (Len(io.stream) - io.arrived)
    /\ io' = [io EXCEPT !.arrived = @ + k]
    /\ UNCHANGED benchOnly

\* the peer closes after the last byte of its stream
PeerCloses ==
    /\ io.fn = "recv" /\ io.pc = "loop"
    /\ ~io.closed
    /\ io.arrived = Len(io.stream)
    /\ io' = [io EXCEPT !.closed = TRUE]
    /\ UNCHANGED benchOnly

\* while (total_received < length) fails: return total_received
RecvReturn ==
    /\ io.fn = "recv" /\ io.pc = "loop"
    /\ ~(io.total_received < io.length)
    /\ io' = [io EXCEPT !.pc = "done", !.end = "full", !.ret = io.total_received]
    /\ UNCHANGED benchOnly

\* recv() returns k of the bytes that have come in
RecvReads(k) ==
    /\ io.fn = "recv" /\ io.pc = "loop"
    /\ io.total_received < io.length
    /\ k \in 1 .. Min(io.arrived - io.total_received, io.length - io.total_received)
    /\ io' = [io EXCEPT !.buffer = @ \o SubSeq(io.stream, io.total_received + 1,
                                                 io.total_received + k),
                        !.reads = @ + 1,
                        !.total_received = @ + k]
    /\ UNCHANGED benchOnly

\* recv() returns 0: nothing left to read and the peer has closed
RecvClosed ==
    /\ io.fn = "recv" /\ io.pc = "loop"
    /\ io.total_received < io.length
    /\ io.arrived = io.total_received /\ io.closed
    /\ io' = [io EXCEPT !.pc = "done", !.end = "closed", !.ret = io.total_received]
    /\ UNCHANGED benchOnly

\* recv() returns -1 with EAGAIN: nothing to read on a non-blocking socket
RecvWouldBlock ==
    /\ io.fn = "recv" /\ io.pc = "loop"
    /\ io.total_received < io.length
    /\ io.arrived = io.total_received /\ ~io.closed /\ io.nonblocking
    /\ io' = [io EXCEPT !.pc = "done", !.end = "again", !.ret = RecvAgain(io.total_received)]
    /\ UNCHANGED benchOnly

\* recv() returns -1 with EINTR: continue
RecvInterrupted ==
    /\ io.fn = "recv" /\ io.pc = "loop"
    /\ io.total_received < io.length
    /\ io.interrupts < MaxIntr
    /\ io' = [io EXCEPT !.interrupts = @ + 1]
    /\ UNCHANGED benchOnly

\* recv() returns -1 with another errno: return -1
RecvFails ==
    /\ io.fn = "recv" /\ io.pc = "loop"
    /\ io.total_received < io.length
    /\ io' = [io EXCEPT !.pc = "done", !.end = "error", !.ret = -1]
    /\ UNCHANGED benchOnly

NextRecv ==
    \/ \E k \in 1 .. MaxPayload : PeerSends(k)
    \/ PeerCloses
    \/ RecvReturn
    \/ \E k \in 1 .. MaxPayload : RecvReads(k)
    \/ RecvClosed
    \/ RecvWouldBlock
    \/ RecvInterrupted
    \/ RecvFails

SpecRecv == InitRecv /\ [][NextRecv]_vars


(* SpecWeapon: one weapon of the client (weapon.c: weapon_create, weapon_fire,
   weapon_update) or the fire cooldown of one server slot (server_handle_firing),
   driven by updates of a fixed step and by fire attempts *)
weaponOnly == << serverState, clientState, io >>

\* weapon_create: fire_rate, in halves of a shot per second
fire_rate(type) ==
    CASE type = WEAPON_TYPE_SPREAD -> 6
      [] type = WEAPON_TYPE_RAPID -> 20
      [] type = WEAPON_TYPE_LASER -> 3
      [] OTHER -> 4

\* 1.0f / fire_rate: the float nearest to the quotient, for a rate of h halves
Reciprocal(h) ==
    LET one == 1073741824
        q == F32Spacing(one \div h, 1)
        lo == ((one \div h) \div q) * q
        r == one - lo * h
    IN IF 2 * r < q * h THEN lo
       ELSE IF 2 * r > q * h THEN lo + q
       ELSE IF (lo \div q) % 2 = 0 THEN lo ELSE lo + q

\* the time one frame of the client takes (GetFrameTime): 0.05f, 0.025f, 1/60
FrameTimes == {26843546, 13421773, DT}

\* the slot table of a server with the one client in slot 0, holding weapon type
OneSlot(type) ==
    [players |-> [i \in Slots |-> IF i = 0
                                   THEN [ZeroPlayer EXCEPT !.active = TRUE, !.socket = 0,
                                                           !.weapon = type, !.health = 100]
                                   ELSE ZeroPlayer],
     bullets |-> << >>, bullet_count |-> 0]

\* the cooldown a fired weapon starts from
Period(g) ==
    IF g.side = "client" THEN Reciprocal(fire_rate(g.type)) ELSE get_weapon_cooldown(g.type)

InitWeapon ==
    /\ ServerIdle
    /\ ClientStart
    /\ io = [fn |-> "none"]
    /\ gun \in {[fn |-> "weapon", side |-> "client", type |-> t, dt |-> d, cooldown |-> 0,
                  table |-> << >>, elapsed |-> 0, updates |-> 0, shots |-> 0,
                  attempt |-> "none", due |-> FALSE] :
                    t \in {WEAPON_TYPE_SPREAD, WEAPON_TYPE_RAPID, WEAPON_TYPE_LASER},
                    d \in FrameTimes}
               \cup
               {[fn |-> "weapon", side |-> "server", type |-> t, dt |-> DT, cooldown |-> 0,
                  table |-> OneSlot(t), elapsed |-> 0, updates |-> 0, shots |-> 0,
                  attempt |-> "none", due |-> FALSE] :
                    t \in {WEAPON_TYPE_SPREAD, WEAPON_TYPE_RAPID, WEAPON_TYPE_LASER}}

\* weapon_update(weapon, dt); gun.elapsed adds up the steps since the last shot
weapon_update ==
    /\ gun.fn = "weapon" /\ gun.side = "client"
    /\ gun.updates < MaxUpdates
    /\ gun' = [gun EXCEPT !.cooldown = IF @ > 0
                                       THEN (IF F32(@ - gun.dt) < 0 THEN 0 ELSE F32(@ - gun.dt))
                                       ELSE @,
                          !.elapsed = @ + gun.dt,
                          !.updates = @ + 1,
                          !.attempt = "none"]
    /\ UNCHANGED weaponOnly

\* weapon_fire(weapon, position, bullets); gun.due tells whether the time added
\* up since the last shot had reached the cooldown the weapon started from
weapon_fire ==
    /\ gun.fn = "weapon" /\ gun.side = "client"
    /\ gun.attempt = "none"
    /\ IF gun.cooldown > 0
       THEN gun' = [gun EXCEPT !.attempt = "refused",
                               !.due = gun.elapsed >= Period(gun)]
       ELSE gun' = [gun EXCEPT !.attempt = "fired",
                               !.due = gun.shots = 0 \/ gun.elapsed >= Period(gun),
                               !.shots = @ + 1,
                               !.cooldown = Reciprocal(fire_rate(gun.type)),
                               !.elapsed = 0]
    /\ UNCHANGED weaponOnly

\* one server_handle_firing(server, dt) with the client's fire key up or down
\* (input_flags); a tick with the key down is a fire attempt
FiringTick(input_flags) ==
    /\ gun.fn = "weapon" /\ gun.side = "server"
    /\ gun.updates < MaxUpdates
    /\ LET before == [gun.table EXCEPT !.players[0].input_flags = input_flags]
           after == server_handle_firing(before, 0)
           passed == IF gun.cooldown > 0 THEN gun.elapsed + DT ELSE gun.elapsed
           fired == after.bullet_count > before.bullet_count
           asked == (input_flags \div INPUT_FIRE) % 2 = 1
       IN gun' = [gun EXCEPT !.table = after,
                             !.cooldown = after.players[0].fire_cooldown,
                             !.updates = @ + 1,
                             !.attempt = IF ~asked THEN "none"
                                         ELSE IF fired THEN "fired" ELSE "refused",
                             !.due = IF asked THEN gun.shots = 0 \/ passed >= Period(gun)
                                     ELSE @,
                             !.shots = IF fired THEN @ + 1 ELSE @,
                             !.elapsed = IF fired THEN 0 ELSE passed]
    /\ UNCHANGED weaponOnly

NextWeapon ==
    \/ weapon_update
    \/ weapon_fire
    \/ \E input_flags \in {0, INPUT_FIRE} : FiringTick(input_flags)

SpecWeapon == InitWeapon /\ [][NextWeapon]_vars


(* SpecBullets: server_update_bullets(server, dt) and server_spawn_single_bullet
   on the projectile table, with a step dt that is the same in every update.
   The projectiles of this specification keep inside the field (their place is
   not followed): of the tests of server.c 469-471 the lifetime decides. *)

\* the step of an update: 0.5f, and the 1.0f / 60 of server.c 714
UpdateSteps == {268435456, DT}

InitBullets ==
    /\ ServerIdle
    /\ ClientStart
    /\ io = [fn |-> "none"]
    /\ gun \in {[fn |-> "bullets", dt |-> d, table |-> [bullets |-> << >>, bullet_count |-> 0],
                  updates |-> 0, spawned |-> 0, into |-> -1] : d \in UpdateSteps}

\* server_spawn_single_bullet; gun.into keeps the slot the projectile went into
SpawnSingle ==
    /\ gun.fn = "bullets"
    /\ gun.spawned < MaxSpawns
    /\ gun' = [gun EXCEPT !.table = server_spawn_single_bullet(@, 0, << >>, 0, WEAPON_TYPE_RAPID),
                          !.spawned = @ + 1,
                          !.into = server_find_free_bullet(gun.table.bullets)]
    /\ UNCHANGED weaponOnly

\* server_update_bullets(server, dt)
UpdateBullets ==
    /\ gun.fn = "bullets"
    /\ gun.updates < MaxBulletUpdates
    /\ gun' = [gun EXCEPT !.table = server_update_bullets(@, gun.dt),
                          !.updates = @ + 1,
                          !.into = -1]
    /\ UNCHANGED weaponOnly

NextBullets ==
    \/ SpawnSingle
    \/ UpdateBullets

SpecBullets == InitBullets /\ [][NextBullets]_vars


(* SpecStream: the server and one client.  What the client sends after its
   Connect is in flight (io.flight, a queue of messages) until the network
   hands it to the server's socket, a whole message at a time or a piece of
   one (TCP keeps the order of the bytes and nothing of the boundaries of the
   sends).  io.pieces records that some message arrived in pieces. *)

InitStream ==
    /\ ServerInit([conns |-> 1, msgs |-> StreamMsgs, faults |-> 0, bad |-> 0,
                   ticks |-> StreamTicks])
    /\ ClientStart
    /\ gun = [fn |-> "none"]
    /\ io = [fn |-> "wire", flight |-> << >>, deliveries |-> 0, inputs |-> << >>, unknown |-> 0,
             pieces |-> FALSE]

\* the accepted client sends a PlayerInput; io.inputs keeps what it sent
StreamSendInput(c, flags, weapon, sequence) ==
    /\ io.fn = "wire"
    /\ cst[c] = "held" /\ peer[c] = "open" /\ Accepted(c)
    /\ WireTurn
    /\ used.msgs < lim.msgs
    /\ used' = [used EXCEPT !.msgs = @ + 1]
    /\ io' = [io EXCEPT !.flight = Append(@, EncHeader(MSG_PLAYER_INPUT, SIZEOF_INPUT)
                                              \o EncInput(ack[c][2], flags, weapon, sequence)),
                        !.inputs = Append(@, << flags, weapon, sequence >>)]
    /\ UNCHANGED << serverVars, backlog, cst, inb, ack, snap, peer, lim, inherit_nb, hist,
                    clientState, gun >>

\* the accepted client sends a message of a type server_handle_client_message
\* has no case for: a Pong, header and payload
StreamSendUnknown(c) ==
    /\ io.fn = "wire"
    /\ cst[c] = "held" /\ peer[c] = "open" /\ Accepted(c)
    /\ WireTurn
    /\ used.msgs < lim.msgs
    /\ io.unknown = 0
    /\ used' = [used EXCEPT !.msgs = @ + 1]
    /\ io' = [io EXCEPT !.flight = Append(@, EncHeader(MSG_PONG, SIZEOF_PONG) \o Zeros(SIZEOF_PONG)),
                        !.unknown = @ + 1]
    /\ UNCHANGED << serverVars, backlog, cst, inb, ack, snap, peer, lim, inherit_nb, hist,
                    clientState, gun >>

\* the sizes of the pieces: a part of a header, a header, a header and a part
\* of the payload
StreamPieces == {1, SIZEOF_HEADER, SIZEOF_HEADER + 1}

\* the message at the head of the queue comes into the socket's receive buffer
DeliverMessage(c) ==
    /\ io.fn = "wire"
    /\ cst[c] = "held" /\ peer[c] = "open"
    /\ WireTurn
    /\ io.flight # << >>
    /\ io.deliveries < StreamDeliveries
    /\ inb' = [inb EXCEPT ![c] = @ \o Head(io.flight)]
    /\ io' = [io EXCEPT !.flight = Tail(@), !.deliveries = @ + 1]
    /\ UNCHANGED << serverVars, backlog, cst, ack, snap, peerVars, hist, clientState, gun >>

\* its first k bytes come, the rest stays in flight
DeliverPiece(c, k) ==
    /\ io.fn = "wire"
    /\ cst[c] = "held" /\ peer[c] = "open"
    /\ WireTurn
    /\ io.flight # << >>
    /\ k \in 1 .. (Len(Head(io.flight)) - 1)
    /\ io.deliveries < StreamDeliveries
    /\ inb' = [inb EXCEPT ![c] = @ \o Take(Head(io.flight), k)]
    /\ io' = [io EXCEPT !.flight = << Drop(Head(@), k) >> \o Tail(@), !.pieces = TRUE,
                        !.deliveries = @ + 1]
    /\ UNCHANGED << serverVars, backlog, cst, ack, snap, peerVars, hist, clientState, gun >>

NextStream ==
    \/ \E c \in Conns : PeerOpen(c)
    \/ \E c \in Conns : PeerSendConnect(c, PROTOCOL_VERSION, SIZEOF_CONNECT)
    \/ \E c \in Conns, fw \in FlagWeapons :
          StreamSendInput(c, fw[1], fw[2], Len(io.inputs) + 1)
    \/ \E c \in Conns : StreamSendUnknown(c)
    \/ \E c \in Conns : DeliverMessage(c)
    \/ \E c \in Conns, k \in StreamPieces : DeliverPiece(c, k)
    \/ Accept
    \/ Handshake
    \/ ProcessSlot
    \/ UpdateWorld
    \/ SendState
    \/ Tick

SpecStream == InitStream /\ [][NextStream]_vars


(* SpecPass: the receive part of the agent's steady-state loop
   (network_client.c 178-280), one recv per step.  The server's bytes are in
   io.flight until they arrive in the socket's receive buffer io.sock; io.off
   counts the bytes the agent has taken from the stream and io.marks holds the
   offsets at which the server's messages begin. *)

\* a PlayerState record as server.c 611-627 writes it: a ship at (48, 32), at
\* rest, with full health
ShipBytes(player_id) ==
    << player_id >> \o << 0, 0, 64, 66 >> \o << 0, 0, 0, 66 >> \o Zeros(8)
        \o EncU16(100) \o << WEAPON_TYPE_SPREAD, 0 >>

\* a BulletState record as server.c 629-645 writes it
ShotBytes(owner_id) ==
    << owner_id >> \o << 0, 0, 64, 66 >> \o << 0, 0, 0, 66 >> \o Zeros(8)
        \o << WEAPON_TYPE_RAPID >>

\* the fields the agent keeps of a PlayerState, network_client.c 215-222
DecPlayer(ps) ==
    [id |-> ps[1], x |-> SubSeq(ps, 2, 5), y |-> SubSeq(ps, 6, 9), vx |-> SubSeq(ps, 10, 13),
     vy |-> SubSeq(ps, 14, 17), health |-> Int16(DecU16(SubSeq(ps, 18, 19))), weapon |-> ps[20]]

\* the fields the agent keeps of a BulletState, network_client.c 239-245
DecBullet(bs) ==
    [owner_id |-> bs[1], x |-> SubSeq(bs, 2, 5), y |-> SubSeq(bs, 6, 9),
     vx |-> SubSeq(bs, 10, 13), vy |-> SubSeq(bs, 14, 17), weapon_type |-> bs[18]]

\* the GameState message of server_send_state for tick t with np ships and nb
\* projectiles
GameStateBytes(t, np, nb) ==
    LET P == [k \in 1 .. np |-> ShipBytes(k - 1)]
        B == [k \in 1 .. nb |-> ShotBytes(0)]
        Cat[k \in 0 .. (np + nb)] ==
            IF k = 0 THEN << >>
            ELSE Cat[k - 1] \o (IF k <= np THEN P[k] ELSE B[k - np])
    IN EncHeader(MSG_GAME_STATE, SIZEOF_GAMESTATE + np * SIZEOF_PLAYERSTATE
                                     + nb * SIZEOF_BULLETSTATE)
         \o EncU32(t) \o EncU32(0) \o << np, nb >> \o Cat[np + nb]

\* what the agent should hold of that message
GameStateHeld(t, np, nb) ==
    [server_tick |-> t,
     players |-> [k \in 1 .. np |-> DecPlayer(ShipBytes(k - 1))],
     bullets |-> [k \in 1 .. nb |-> DecBullet(ShotBytes(0))]]

\* the tick of the first message sent; the server counts on from there
FirstTick == 5

\* the sizes of the pieces the stream arrives in, besides all that is in flight
Pieces == {1, SIZEOF_HEADER, SIZEOF_HEADER + SIZEOF_GAMESTATE + SIZEOF_PLAYERSTATE}

NoRead == [tick |-> 0, player_count |-> 0, bullet_count |-> 0, players |-> << >>,
           bullets |-> << >>, all_received |-> TRUE]

InitPass ==
    /\ ServerIdle /\ ClientStart
    /\ gun = [fn |-> "none"]
    /\ io = [fn |-> "pass", flight |-> << >>, sock |-> << >>, closed |-> FALSE,
             sent |-> << >>, marks |-> {0}, total |-> 0, arrivals |-> 0, off |-> 0,
             mid |-> FALSE,
             pc |-> "header", msg_header |-> << >>, loc |-> NoRead, short |-> FALSE,
             passes |-> 0, running |-> TRUE,
             bridge |-> [players |-> << >>, bullets |-> << >>, server_tick |-> 0,
                         packets_received |-> 0, status |-> NET_CONNECTED],
             before |-> [players |-> << >>, bullets |-> << >>, server_tick |-> 0,
                         packets_received |-> 0, status |-> NET_CONNECTED]]

\* the server sends a GameState message
ServerSends(t, np, nb) ==
    /\ io.fn = "pass" /\ ~io.closed
    /\ Len(io.sent) < MaxSent
    /\ io' = [io EXCEPT !.flight = @ \o GameStateBytes(t, np, nb),
                        !.sent = Append(@, GameStateHeld(t, np, nb)),
                        !.total = @ + Len(GameStateBytes(t, np, nb)),
                        !.marks = @ \cup {io.total + Len(GameStateBytes(t, np, nb))}]
    /\ UNCHANGED benchOnly

\* the server closes the connection
ServerCloses ==
    /\ io.fn = "pass" /\ ~io.closed
    /\ io' = [io EXCEPT !.closed = TRUE]
    /\ UNCHANGED benchOnly

\* the next k bytes in flight arrive
Arrive(k) ==
    /\ io.fn = "pass"
    /\ k \in 1 .. Len(io.flight)
    /\ k \in Pieces \/ k = Len(io.flight)
    /\ io.arrivals < MaxArrivals
    /\ io' = [io EXCEPT !.sock = @ \o Take(io.flight, k), !.flight = Drop(@, k),
                        !.arrivals = @ + 1]
    /\ UNCHANGED benchOnly

\* recv(socket, buf, n, 0) on the non-blocking socket: the bytes read, or << >>
\* with the result 0 (closed) or -1 (EAGAIN)
AgentRecvCount(n) ==
    IF io.sock # << >> THEN Min(n, Len(io.sock))
    ELSE IF io.flight = << >> /\ io.closed THEN 0 ELSE -1

\* the end of a pass: thread_send_input, usleep, and the loop condition
PassEnds(next) ==
    [next EXCEPT !.pc = IF next.running /\ next.passes + 1 < MaxPasses THEN "header" ELSE "done",
                 !.passes = @ + 1]

\* the pass begins: recv of the message header, network_client.c 182
ReadHeader ==
    /\ io.fn = "pass" /\ io.pc = "header"
    /\ LET bytes == AgentRecvCount(SIZEOF_HEADER)
           start == [io EXCEPT !.before = io.bridge, !.short = FALSE, !.loc = NoRead,
                               !.msg_header = << >>]
       IN io' = CASE bytes = SIZEOF_HEADER ->
                       [start EXCEPT !.sock = Drop(@, bytes), !.off = @ + bytes,
                                     !.msg_header = Take(io.sock, bytes),
                                     !.mid = @ \/ io.off \notin io.marks,
                                     !.pc = IF HdrType(Take(io.sock, bytes)) = MSG_GAME_STATE
                                            THEN "state" ELSE "skip"]
                  [] bytes = 0 ->
                       [start EXCEPT !.bridge.status = NET_DISCONNECTED, !.running = FALSE,
                                     !.pc = "done"]
                  [] bytes = -1 -> PassEnds(start)
                  [] OTHER ->
                       PassEnds([start EXCEPT !.sock = Drop(@, bytes), !.off = @ + bytes,
                                              !.short = TRUE,
                                              !.mid = @ \/ io.off \notin io.marks])
    /\ UNCHANGED benchOnly

\* case MSG_GAME_STATE: recv of the GameStateMsg, network_client.c 190-203
ReadState ==
    /\ io.fn = "pass" /\ io.pc = "state"
    /\ LET state_bytes == AgentRecvCount(SIZEOF_GAMESTATE)
           state_hdr == Take(io.sock, SIZEOF_GAMESTATE)
       IN io' = IF state_bytes = SIZEOF_GAMESTATE
                THEN [io EXCEPT !.sock = Drop(@, state_bytes), !.off = @ + state_bytes,
                                !.loc = [NoRead EXCEPT
                                           !.tick = DecU32(SubSeq(state_hdr, 1, 4)),
                                           !.player_count = Min(state_hdr[9], MAX_PLAYERS),
                                           !.bullet_count = Min(state_hdr[10], MAX_REMOTE_BULLETS)],
                                !.pc = "records"]
                ELSE PassEnds([io EXCEPT !.sock = Drop(@, Min(Len(@), SIZEOF_GAMESTATE)),
                                         !.off = @ + Min(Len(io.sock), SIZEOF_GAMESTATE),
                                         !.short = TRUE])
    /\ UNCHANGED benchOnly

\* the snapshot is handed to the Bridge when all_received holds
PublishesAnyway(all_received) == TRUE
Publishes(all_received) == all_received

\* one recv of the two record loops, network_client.c 211-251, and after the
\* last one the two update calls of 253-257
ReadRecord ==
    /\ io.fn = "pass" /\ io.pc = "records"
    /\ LET l == io.loc
           players_left == l.all_received /\ Len(l.players) < l.player_count
           bullets_left == l.all_received /\ ~players_left /\ Len(l.bullets) < l.bullet_count
           size == IF players_left THEN SIZEOF_PLAYERSTATE ELSE SIZEOF_BULLETSTATE
           got == AgentRecvCount(size)
           taken == IF got > 0 THEN got ELSE 0
       IN io' = IF players_left \/ bullets_left
                THEN [io EXCEPT !.sock = Drop(@, taken), !.off = @ + taken,
                                !.loc = IF got # size
                                        THEN [l EXCEPT !.all_received = FALSE]
                                        ELSE IF players_left
                                        THEN [l EXCEPT !.players =
                                                  Append(@, DecPlayer(Take(io.sock, size)))]
                                        ELSE [l EXCEPT !.bullets =
                                                  Append(@, DecBullet(Take(io.sock, size)))],
                                !.short = @ \/ got # size]
                ELSE PassEnds(IF Publishes(l.all_received)
                              THEN [io EXCEPT !.bridge.players = l.players,
                                              !.bridge.bullets = l.bullets,
                                              !.bridge.server_tick = l.tick,
                                              !.bridge.packets_received = @ + 1]
                              ELSE io)
    /\ UNCHANGED benchOnly

\* default: the payload of an unknown message is skipped with one recv,
\* network_client.c 260-265
SkipUnknown ==
    /\ io.fn = "pass" /\ io.pc = "skip"
    /\ LET length == HdrLength(io.msg_header)
           got == IF length > 0 /\ length < BUFFER_SIZE THEN AgentRecvCount(length) ELSE 0
           taken == IF got > 0 THEN got ELSE 0
       IN io' = PassEnds([io EXCEPT !.sock = Drop(@, taken), !.off = @ + taken])
    /\ UNCHANGED benchOnly

NextPass ==
    \/ \E shape \in SnapShapes : ServerSends(FirstTick + Len(io.sent), shape[1], shape[2])
    \/ ServerCloses
    \/ \E k \in 1 .. (MaxSent * (SIZEOF_HEADER + SIZEOF_GAMESTATE + SIZEOF_PLAYERSTATE
                                  + SIZEOF_BULLETSTATE)) : Arrive(k)
    \/ ReadHeader
    \/ ReadState
    \/ ReadRecord
    \/ SkipUnknown

SpecPass == InitPass /\ [][NextPass]_vars


(* SpecCli: the module-4 command-line client (client.c) joins the server.  io
   holds the client: the connection it uses and where client_connect stands.
   The other connection is a peer that sends a Connect, as the module-5 agent
   does. *)

InitCli ==
    /\ ServerInit([conns |-> CliConns, msgs |-> 0, faults |-> 0, bad |-> 0, ticks |-> CliTicks])
    /\ ClientStart
    /\ gun = [fn |-> "none"]
    /\ io \in {[fn |-> "cli", conn |-> c, pc |-> "connect", player_id |-> 0, sequence |-> 0] :
                 c \in 1 .. CliConns}

cliOnly == << serverVars, inb, ack, snap, peer, used, hist, clientState, gun >>

\* client_connect, client.c 102-108: net_connect_to_server; the client goes on
\* to wait for the answer and sends nothing
CliConnect ==
    /\ io.fn = "cli" /\ io.pc = "connect"
    /\ cst[io.conn] = "idle"
    /\ WireTurn
    /\ tick + 1 < lim.ticks
    /\ cst' = [cst EXCEPT ![io.conn] = "queued"]
    /\ backlog' = Append(backlog, io.conn)
    /\ io' = [io EXCEPT !.pc = "wait_ack"]
    /\ UNCHANGED cliOnly

\* client_connect, client.c 110-141: the two blocking reads of the answer
\* return when the server has sent its ConnectAck or has closed
CliRecvAck ==
    /\ io.fn = "cli" /\ io.pc = "wait_ack"
    /\ ack[io.conn] # << >> \/ cst[io.conn] = "closed"
    /\ io' = IF ack[io.conn] # << >> /\ ack[io.conn][1] = 1
             THEN [io EXCEPT !.pc = "joined", !.player_id = ack[io.conn][2], !.sequence = 0]
             ELSE [io EXCEPT !.pc = "failed"]
    /\ UNCHANGED << cliOnly, cst, backlog >>

\* the other peer
OtherOpen ==
    /\ io.fn = "cli"
    /\ \E c \in Conns \ {io.conn} :
          /\ cst[c] = "idle"
          /\ WireTurn
          /\ cst' = [cst EXCEPT ![c] = "queued"]
          /\ backlog' = Append(backlog, c)
    /\ UNCHANGED << cliOnly, io >>

OtherSendConnect ==
    /\ io.fn = "cli"
    /\ \E c \in Conns \ {io.conn} : PeerSendConnect(c, PROTOCOL_VERSION, SIZEOF_CONNECT)

NextCli ==
    \/ CliConnect
    \/ CliRecvAck
    \/ OtherOpen
    \/ OtherSendConnect
    \/ Accept
    \/ Handshake
    \/ ProcessSlot
    \/ UpdateWorld
    \/ SendState
    \/ Tick

\* the server's loop runs on its own; client_connect returns from its reads
\* when there is something to return with
SpecCli == InitCli /\ [][NextCli]_vars /\ WF_vars(ServerStep) /\ WF_vars(CliRecvAck)


(* SpecFirst: what a peer sends first on its connection is a whole Connect
   (with the server's version or another), a Connect of which only the header
   or the header and a part of the payload comes, a PlayerInput, or a
   Disconnect.  io.first keeps what each peer sent first. *)

FirstKinds == {"connect", "version", "header", "part", "input", "disconnect"}

FirstBytes(kind) ==
    CASE kind = "connect" -> EncHeader(MSG_CONNECT, SIZEOF_CONNECT) \o EncConnect(PROTOCOL_VERSION)
      [] kind = "version" -> EncHeader(MSG_CONNECT, SIZEOF_CONNECT)
                                 \o EncConnect(PROTOCOL_VERSION + 1)
      [] kind = "header" -> EncHeader(MSG_CONNECT, SIZEOF_CONNECT)
      [] kind = "part" -> EncHeader(MSG_CONNECT, SIZEOF_CONNECT)
                              \o Take(EncConnect(PROTOCOL_VERSION), SIZEOF_CONNECT - 1)
      [] kind = "input" -> EncHeader(MSG_PLAYER_INPUT, SIZEOF_INPUT)
                               \o EncInput(0, INPUT_FIRE, WEAPON_TYPE_RAPID, 1)
      [] kind = "disconnect" -> EncHeader(MSG_DISCONNECT, 0)

InitFirst ==
    /\ ServerInit([conns |-> FirstConns, msgs |-> FirstMsgs, faults |-> FirstFaults, bad |-> 0,
                   ticks |-> FirstTicks])
    /\ ClientStart
    /\ gun = [fn |-> "none"]
    /\ io = [fn |-> "first", first |-> [c \in 1 .. FirstConns |-> "none"]]

\* the peer's first send
PeerSendFirst(c, kind) ==
    /\ io.fn = "first" /\ io.first[c] = "none"
    /\ cst[c] \in {"queued", "held"}
    /\ peer[c] = "open"
    /\ WireTurn
    /\ inb' = [inb EXCEPT ![c] = FirstBytes(kind)]
    /\ io' = [io EXCEPT !.first[c] = kind]
    /\ UNCHANGED << serverVars, backlog, cst, ack, snap, peerVars, hist, clientState, gun >>

NextFirst ==
    \/ \E c \in Conns : PeerOpen(c)
    \/ \E c \in Conns, kind \in FirstKinds : PeerSendFirst(c, kind)
    \/ \E c \in Conns : PeerSendInput(c, INPUT_UP, WEAPON_TYPE_SPREAD, 1, SIZEOF_INPUT)
    \/ \E c \in Conns : PeerClose(c)
    \/ Accept
    \/ Handshake
    \/ ProcessSlot
    \/ UpdateWorld
    \/ SendState
    \/ Tick

SpecFirst == InitFirst /\ [][NextFirst]_vars


(* ---------------------------- properties ------------------------------- *)
\* the bytes waiting on slot i's connection start with a whole PlayerInput message
InputAtHead(i) ==
    LET b == inb[players[i].socket]
    IN /\ Len(b) >= SIZEOF_HEADER + SIZEOF_INPUT
       /\ HdrType(Take(b, SIZEOF_HEADER)) = MSG_PLAYER_INPUT
HeadInput(i) == SubSeq(inb[players[i].socket], SIZEOF_HEADER + 1, SIZEOF_HEADER + SIZEOF_INPUT)

\* C1: a PlayerInput the server reads on a slot is applied (flags, weapon and
\* last-accepted sequence stored) exactly when its sequence is strictly greater
\* than the slot's last-accepted sequence, otherwise the slot is left as it was;
\* the last-accepted sequence of an occupied slot never decreases; and of the
\* arrivals 5, 3, 7, 7, 6 on a fresh slot exactly 5 and 7 are applied.
C1_AppliedIffNewer ==
    [][ /\ AppliedOf(<< 5, 3, 7, 7, 6 >>, 0) = << 5, 7 >>
        /\ (srv_pc = "recv" /\ InputAtHead(srv_i)) =>
            LET i == srv_i
                m == HeadInput(i)
            IN IF InSequence(m) > players[i].last_sequence
               THEN players' = [players EXCEPT ![i].last_sequence = InSequence(m),
                                               ![i].input_flags = InFlags(m),
                                               ![i].weapon = InWeapon(m)]
               ELSE players' = players
        /\ \A i \in Slots :
              (players[i].active /\ players'[i].active) =>
                  players'[i].last_sequence >= players[i].last_sequence
      ]_vars

\* C1 witness: a PlayerInput was read on a slot that had already accepted a newer
\* or equal sequence, and the slot still holds that sequence
C1_Witness ==
    /\ lastInput # << >>
    /\ lastInput[3] > 0
    /\ lastInput[2] <= lastInput[3]
    /\ players[lastInput[1]].last_sequence = lastInput[3]

\* C2: once the main loop has copied players and projectiles that both came from
\* the server, the two were decoded from the same GameState message.
C2_SnapshotNotMixed ==
    (/\ main_pc \in {"my_position", "draw_bullets", "draw_players", "draw_ui"}
     /\ game.remote_players.of > 0
     /\ game.remote_bullets.of > 0) =>
        game.remote_players.of = game.remote_bullets.of

\* C3: no thread has touched a SharedState field without holding the mutex.
C3_EveryAccessLocked == bare = {}

\* C4: the owner has closed the socket, freed the NetworkClient and destroyed the
\* SharedState mutex only after the network thread had returned.
C4_JoinBeforeReclaim == early = {}

\* C5: when the network thread has returned after leaving its steady-state loop,
\* the socket is closed and the status is Disconnected or Error.
C5_TerminalStatusOnExit ==
    (agent_pc = "done" /\ loopExit # "" /\ ~nc.freed) =>
        /\ nc.socket = INVALID_SOCKET
        /\ sh.status \in {NET_DISCONNECTED, NET_ERROR}

\* C6: a peer that has connected and not sent its Connect does not stop the loop:
\* as long as the run's iterations are not used up the server has a step to take.
C6_ServerNeverStalls == (tick < lim.ticks) => ENABLED ServerStep

\* C7: with no slot freed, the k-th connection whose Connect carries the server's
\* version gets player id k-1 and slot k-1 for k <= MAX_PLAYERS, and
\* ConnectAck{accepted = false, reason = ServerFull} and a close after that; the
\* occupied slots never exceed MAX_PLAYERS.
C7_FirstNAccepted ==
    /\ Cardinality(ActiveSlots) <= MAX_PLAYERS
    /\ player_count <= MAX_PLAYERS
    /\ ~everFreed =>
          \A k \in 1 .. Len(acceptLog) :
             LET c == acceptLog[k]
             IN IF k <= MAX_PLAYERS
                THEN /\ ack[c] = << 1, k - 1, 0 >>
                     /\ players[k - 1].active
                     /\ players[k - 1].socket = c
                     /\ cst[c] = "held"
                ELSE /\ ack[c] = << 0, 0, REASON_FULL >>
                     /\ cst[c] = "closed"

\* C7 witness: MAX_PLAYERS + 1 attempts with the server's version have been answered
C7_Witness == Len(acceptLog) = MAX_PLAYERS + 1 /\ ~everFreed

\* the handshake read is about to find a whole Connect on the accepted socket
ConnectAtHead ==
    /\ srv_pc = "handshake"
    /\ Len(inb[hs_sock]) >= SIZEOF_HEADER + SIZEOF_CONNECT
    /\ HdrType(Take(inb[hs_sock], SIZEOF_HEADER)) = MSG_CONNECT
HeadVersion == inb[hs_sock][SIZEOF_HEADER + 1]

\* C8: a Connect with another protocol version is answered with
\* ConnectAck{accepted = false, reason = VersionMismatch}, the connection is
\* closed, and the player table and the player count stay as they were, whether
\* or not a slot is free.
C8_VersionMismatchRejected ==
    [][ (ConnectAtHead /\ HeadVersion # PROTOCOL_VERSION /\ srv_pc' # "handshake") =>
            /\ ack'[hs_sock] = << 0, 0, REASON_VERSION >>
            /\ cst'[hs_sock] = "closed"
            /\ players' = players
            /\ player_count' = player_count
      ]_vars

\* C8 witness: the table is full and the connection attempted after the four
\* accepted ones was answered VersionMismatch
C8_Witness ==
    /\ \A i \in Slots : players[i].active /\ players[i].socket = i + 1
    /\ MAX_PLAYERS + 1 \in Conns
    /\ ack[MAX_PLAYERS + 1] = << 0, 0, REASON_VERSION >>
    /\ cst[MAX_PLAYERS + 1] = "closed"

\* C9: in a broadcast the slots freed are exactly those whose send failed, the
\* player count drops by their number, every other active slot is unchanged and
\* its connection is sent this tick's snapshot, and the loop goes on to the tick
\* increment.
C9_SendFailureIsolated ==
    [][ (srv_pc = "send" /\ srv_pc' # "send" /\ player_count > 0) =>
            /\ srv_pc' = "tick"
            /\ sendFailed' \subseteq ActiveSlots
            /\ player_count' = player_count - Cardinality(sendFailed')
            /\ \A i \in Slots :
                  IF i \in sendFailed'
                  THEN /\ ~players'[i].active
                       /\ cst'[players[i].socket] = "closed"
                  ELSE /\ players'[i] = players[i]
                       /\ players[i].active =>
                             /\ snap'[players[i].socket] = Snapshot(i)
                             /\ cst'[players[i].socket] = cst[players[i].socket]
      ]_vars

\* C9 witness: the send to slot 0 failed in the last broadcast while slot 1 stayed
\* and was sent the snapshot of this tick
C9_Witness ==
    /\ srv_pc = "tick"
    /\ sendFailed = {0}
    /\ ~players[0].active
    /\ players[1].active
    /\ snap[players[1].socket] # << >>
    /\ snap[players[1].socket].tick = tick

\* C10: a Connect whose header carries a payloadLength other than the
\* ConnectRequest size is not taken as a Connect: the connection is closed and
\* no slot is given.
C10_LengthMismatchRejected ==
    [][ (ConnectAtHead /\ HdrLength(Take(inb[hs_sock], SIZEOF_HEADER)) # SIZEOF_CONNECT
         /\ srv_pc' # "handshake") =>
            /\ cst'[hs_sock] = "closed"
            /\ players' = players
      ]_vars

\* the slots a step frees
FreedBy == {i \in Slots : players[i].active /\ ~players'[i].active}

\* C11: the player count equals the number of occupied slots and lies in
\* 0 .. MAX_PLAYERS before and after every step; a step that frees slots clears
\* their active flag, closes their connections, lowers the count by exactly their
\* number, and leaves the server at a further step of its loop.
C11_CountMatchesSlots ==
    [][ /\ player_count = Cardinality(ActiveSlots)
        /\ player_count' = Cardinality({i \in Slots : players'[i].active})
        /\ player_count' \in 0 .. MAX_PLAYERS
        /\ FreedBy # {} =>
              /\ player_count' = player_count - Cardinality(FreedBy)
              /\ \A i \in FreedBy : cst'[players[i].socket] = "closed"
              /\ srv_pc' \in {"recv", "world", "tick"}
      ]_vars

\* C11 witness: a player was dropped by the read of its socket and the table
\* holds one player, counted once
C11_Witness ==
    /\ everFreed
    /\ sendFailed = {}
    /\ player_count = 1
    /\ Cardinality(ActiveSlots) = 1

\* C12: in every GameState message the server sends, the header's length is the
\* GameStateMsg size plus player_count PlayerState sizes plus bullet_count
\* BulletState sizes; player_count is the number of player records written, one
\* per active slot in increasing slot order, laid one after the other from the
\* end of GameStateMsg; bullet_count is the number of projectile records
\* written, laid one after the other from the end of the player records.
C12_LengthMatchesRecords ==
    [][ \A c \in Conns : snap'[c] # snap[c] =>
          LET m == snap'[c]
          IN /\ m.type = MSG_GAME_STATE
             /\ m.length = SIZEOF_GAMESTATE + m.player_count * SIZEOF_PLAYERSTATE
                                + m.bullet_count * SIZEOF_BULLETSTATE
             /\ m.player_count = Len(m.players)
             /\ {m.players[k].player_id : k \in 1 .. Len(m.players)} = ActiveSlots
             /\ \A k \in 1 .. Len(m.players) :
                   /\ m.players[k].at = SIZEOF_GAMESTATE + (k - 1) * SIZEOF_PLAYERSTATE
                   /\ k > 1 => m.players[k - 1].player_id < m.players[k].player_id
             /\ m.bullet_count = Len(m.bullets)
             /\ \A k \in 1 .. Len(m.bullets) :
                   m.bullets[k].at = SIZEOF_GAMESTATE + Len(m.players) * SIZEOF_PLAYERSTATE
                                         + (k - 1) * SIZEOF_BULLETSTATE
      ]_vars

\* C12 witness: a peer holds a GameState message with two player records and
\* MAX_SYNC_BULLETS projectile records, sent while more projectiles were in flight
C12_Witness ==
    \E c \in Conns :
        /\ snap[c] # << >>
        /\ snap[c].tick = tick
        /\ Len(snap[c].players) = 2
        /\ Len(snap[c].bullets) = MAX_SYNC_BULLETS
        /\ bullet_count > MAX_SYNC_BULLETS

\* C13: in a broadcast the copy sent to a slot carries that slot's
\* last_sequence as your_sequence, and the copies sent to two slots are equal in
\* every other field: tick, counts, length, player records, projectile records.
C13_CopiesDifferInAckOnly ==
    [][ \A i, j \in ActiveSlots :
          LET c == players[i].socket
              d == players[j].socket
          IN (snap'[c] # snap[c] /\ snap'[d] # snap[d]) =>
                /\ snap'[c].your_sequence = players[i].last_sequence
                /\ [snap'[c] EXCEPT !.your_sequence = 0] = [snap'[d] EXCEPT !.your_sequence = 0]
                /\ snap'[c].tick = tick
      ]_vars

\* C13 witness: two peers hold the GameState of this tick, one acknowledging a
\* PlayerInput and one acknowledging none
C13_Witness ==
    /\ players[0].active /\ players[1].active
    /\ players[0].last_sequence # players[1].last_sequence
    /\ \A i \in {0, 1} : /\ snap[players[i].socket] # << >>
                          /\ snap[players[i].socket].tick = tick
                          /\ snap[players[i].socket].your_sequence = players[i].last_sequence

\* C14: for every GameState message a client reads whole, the tick and
\* your_sequence it decodes and the records SharedState holds afterwards are
\* those the server wrote: as many, in the same order, equal in every field that
\* RemotePlayer and RemoteBullet have.
C14_DecodeGivesBack ==
    \A c \in Conns : snap[c] # << >> =>
        LET m == snap[c]
            h == ClientHolds(m)
        IN /\ h.server_tick = m.tick
           /\ DecodeGameState(m).your_sequence = m.your_sequence
           /\ h.player_count = Len(m.players)
           /\ Len(h.players) = Len(m.players)
           /\ \A k \in 1 .. Len(m.players) :
                 h.players[k] = [active |-> 1, id |-> m.players[k].player_id,
                                 kin |-> m.players[k].kin, health |-> m.players[k].health,
                                 weapon |-> m.players[k].weapon]
           /\ h.bullet_count = Len(m.bullets)
           /\ Len(h.bullets) = Len(m.bullets)
           /\ \A k \in 1 .. Len(m.bullets) :
                 h.bullets[k] = [active |-> 1, owner_id |-> m.bullets[k].owner_id,
                                 from |-> m.bullets[k].from, shot |-> m.bullets[k].shot,
                                 moved |-> m.bullets[k].moved,
                                 weapon_type |-> m.bullets[k].weapon_type]

\* C14 witness: a client decodes a GameState of two ships, one of them firing,
\* and a full load of projectiles
C14_Witness ==
    \E c \in Conns :
        /\ snap[c] # << >>
        /\ ClientHolds(snap[c]).player_count = 2
        /\ ClientHolds(snap[c]).bullet_count = MAX_REMOTE_BULLETS
        /\ \E k \in 1 .. 2 : snap[c].players[k].flags = 1

\* C15: over a transport that takes between one and all of the bytes offered
\* at each send() and answers EINTR a bounded number of times, net_send_all
\* returns; what it has put on the transport is at every moment the payload's
\* first total_sent bytes, and when it returns it has put there the whole
\* payload, once and in order, and it returns length.
C15_SendAllDelivers ==
    /\ [](io.wire = Take(io.data, io.total_sent))
    /\ []((io.pc = "done" /\ ~io.fault) =>
             /\ io.ret = io.length
             /\ io.wire = io.data)
    /\ <>(io.pc = "done")

\* C15 witness: a payload of ten bytes went out in pieces of 3, 3, 3 and 1, with
\* an EINTR on the way, and the call returned 10
C15_Witness ==
    /\ io.fn = "send"
    /\ io.pc = "done"
    /\ io.length = 10
    /\ io.calls = << 3, 3, 3, 1 >>
    /\ io.interrupts = 1
    /\ io.ret = 10

\* C16: what net_recv_all has stored is at every moment the first
\* total_received bytes of the stream, in stream order.  It returns length, with
\* the first length bytes stored, when the loop ends by its test, in whatever
\* pieces the bytes came; the count collected so far when recv() returns 0, which
\* is 0 when the peer closed without having sent a byte; the count collected so
\* far, less than length, when a non-blocking recv() finds nothing more to
\* read; and -1 when recv() fails in any other way.
C16_RecvExactResults ==
    /\ io.buffer = Take(io.stream, io.total_received)
    /\ io.pc = "done" =>
          CASE io.end = "full" -> /\ io.ret = io.length
                                  /\ io.buffer = Take(io.stream, io.length)
            [] io.end = "closed" -> /\ io.ret = io.total_received
                                    /\ io.ret < io.length
                                    /\ Len(io.stream) = 0 => io.ret = 0
            [] io.end = "again" -> /\ io.nonblocking
                                   /\ io.ret = io.total_received
                                   /\ io.ret < io.length
            [] io.end = "error" -> io.ret = -1

\* C16 witness: ten bytes asked for came in four pieces, with an EINTR on the
\* way, and the call returned 10
C16_Witness ==
    /\ io.fn = "recv"
    /\ io.pc = "done"
    /\ io.end = "full"
    /\ io.length = 10
    /\ io.reads = 4
    /\ io.interrupts = 1
    /\ io.ret = 10

\* the ConnectAck read says the server did not take the client
Rejected == agent_loc.ack # << >> /\ agent_loc.ack.success = 0

\* C17: once the ConnectAck read carries success = 0, the network thread is on
\* its failure exit and nowhere else: the status never becomes Connected, the
\* steady-state loop is never entered; from the status update on SharedState
\* holds NET_ERROR with "Server full" for reason 0 and "Version mismatch" for
\* reason 1; and when the thread has returned, the socket is closed and the
\* running flag is down.
C17_RejectionEndsInError ==
    Rejected =>
        /\ agent_pc \in {"fail_status", "fail_flag", "fail_close", "done", "crashed"}
        /\ sh.status # NET_CONNECTED
        /\ loopExit = ""
        /\ agent_pc # "fail_status" =>
              /\ sh.status = NET_ERROR
              /\ sh.message = IF agent_loc.ack.reason = REASON_FULL THEN "Server full"
                               ELSE "Version mismatch"
        /\ agent_pc = "done" =>
              /\ nc.socket = INVALID_SOCKET
              /\ ~nc.running

\* C17 witness: the thread has returned after a ConnectAck that gave the
\* version as the reason
C17_Witness ==
    /\ Rejected
    /\ agent_loc.ack.reason = REASON_VERSION
    /\ agent_pc = "done"
    /\ sh.status = NET_ERROR
    /\ sh.message = "Version mismatch"
    /\ main_pc = "frame"


\* the steps that end a shared_state_set_input and a shared_state_get_input call
SetCompletes == main_pc = "set_sequence" /\ main_pc' = "copy_players"
GetCompletes == agent_pc = "get_weapon" /\ agent_pc' = "send_input"

\* C18: a shared_state_set_input call leaves behind the flags and the weapon it
\* was given and the counter it found plus one, whatever the network thread does
\* meanwhile; a shared_state_get_input call returns the flags, weapon and
\* sequence left by the most recent completed set call (the initial values
\* before any), and the sequence it returns never goes down
C18_InputHandOff ==
    [][/\ SetCompletes =>
              /\ sh'.input_to_send = game.input.flags
              /\ sh'.weapon_type = game.input.weapon
              /\ sh'.input_sequence = game.input.before + 1
       /\ GetCompletes =>
              << agent_loc'.flags, agent_loc'.weapon, agent_loc'.sequence >> = game.last_set
       /\ agent_loc'.sequence >= agent_loc.sequence]_vars

\* the second get call is under way and has read the flags and the counter of
\* the first set call but not yet its weapon (the first get call returned the
\* initial values), while the main thread waits for the lock with its second
\* set call
C18_Witness ==
    /\ mutex = "agent" /\ agent_pc = "get_weapon"
    /\ agent_loc.get_calls = 1 /\ agent_loc.sequence = 1
    /\ main_pc = "set_input" /\ game.set_calls = 1
    /\ agent_loc.flags = game.last_set[1] /\ agent_loc.weapon # game.last_set[2]

\* the steps a thread takes between pthread_mutex_lock and pthread_mutex_unlock
MainSection ==
    \/ \E fw \in FlagWeapons : shared_state_set_input(fw[1], fw[2])
    \/ SetInputWeapon
    \/ SetInputSequence
    \/ shared_state_copy_players
    \/ shared_state_copy_bullets
    \/ shared_state_get_my_position
    \/ shared_state_get_status
AgentSection ==
    \/ AgentStart
    \/ AgentFailStatus
    \/ AgentSetId
    \/ AgentSetConnected
    \/ shared_state_update_players
    \/ shared_state_update_bullets
    \/ AgentLostStatus
    \/ shared_state_get_input
    \/ GetInputSequence
    \/ GetInputWeapon
    \/ AgentStats

\* the thread at position pc is inside the operation that took the lock at
\* position entry
InsideOf(entry, pc) ==
    \/ pc = entry
    \/ entry = "set_input" /\ pc \in MainInside
    \/ entry = "get_input" /\ pc \in AgentInside

\* the mutex and the client object are there (their teardown is the matter of
\* the owner's cleanup, not of the operations on SharedState)
BridgeIntact == mutex # "destroyed" /\ ~nc.freed

\* C19: a thread holds the mutex only inside the operation that locked it (it
\* has unlocked on every path by the time the operation returns, and no
\* operation is entered with the mutex held); a thread between the lock and
\* the unlock of an operation holds the mutex, so the two threads are never
\* both inside; the holder always has its next step to take, and a free mutex
\* is given to the thread that asks for it; the mutex is only ever taken free
\* and is given back by the thread that holds it
C19_LockDiscipline ==
    /\ [](BridgeIntact =>
            /\ mutex = "main" => InsideOf(game.locked_at, main_pc)
            /\ mutex = "agent" => InsideOf(agent_loc.locked_at, agent_pc)
            /\ main_pc \in MainInside => mutex = "main"
            /\ agent_pc \in AgentInside => mutex = "agent"
            /\ ~(main_pc \in MainInside /\ agent_pc \in AgentInside)
            /\ mutex = "main" => ENABLED MainSection
            /\ mutex = "agent" => ENABLED AgentSection
            /\ (mutex = "free" /\ main_pc \in MainLocked) => ENABLED MainLock
            /\ (mutex = "free" /\ agent_pc \in AgentLocked) => ENABLED AgentLock)
    /\ [][(BridgeIntact /\ BridgeIntact') =>
            /\ (mutex # "main" /\ mutex' = "main") => mutex = "free"
            /\ (mutex # "agent" /\ mutex' = "agent") => mutex = "free"
            /\ (mutex = "main" /\ mutex' # "main") => (mutex' = "free" /\ main_pc' # main_pc)
            /\ (mutex = "agent" /\ mutex' # "agent") => (mutex' = "free" /\ agent_pc' # agent_pc)]_vars

\* the network thread is inside shared_state_update_players with the mutex
\* while the main thread stands at the lock of shared_state_copy_players
C19_Witness ==
    /\ BridgeIntact
    /\ mutex = "agent" /\ agent_pc = "pub_players"
    /\ main_pc = "copy_players" /\ game.locked_at = "set_input"

\* C20: a fire attempt on a weapon that has fired is refused as long as the
\* time added up by the updates since the shot has not reached the cooldown it
\* started from (1 / fire rate), and succeeds once it has; a refused attempt
\* spawns nothing and leaves the cooldown as it is
C20_CooldownGate ==
    gun.fn = "weapon" =>
        /\ gun.attempt = "refused" => ~gun.due
        /\ gun.attempt = "fired" => gun.due

IsInput(m) == Len(m) = SIZEOF_HEADER + SIZEOF_INPUT /\ HdrType(m) = MSG_PLAYER_INPUT

\* C22: a PlayerInput the network thread sends carries a sequence greater than
\* that of the PlayerInput it sent before on the connection
C22_SentSequencesIncrease ==
    (IsInput(link.sent) /\ IsInput(link.prev)) =>
        InSequence(Drop(link.sent, SIZEOF_HEADER)) > InSequence(Drop(link.prev, SIZEOF_HEADER))

\* C23: when the server comes to its physics step, no active slot has a message
\* left unread on its connection: all that had arrived before the reads of the
\* iteration has been processed (clients send between iterations, so that what
\* is unread at the physics step was there when the slot was read)
C23_DrainedBeforePhysics ==
    srv_pc = "world" =>
        \A i \in ActiveSlots : Len(inb[players[i].socket]) < SIZEOF_HEADER
\* C24: a message of unknown type on an active slot is ignored, and what the
\* client sends after it is processed as if the unknown message had not been
\* sent.  Checked where every message arrived whole and the server has read
\* all that was sent: the slot then holds the newest input the client sent.
C24_UnknownIgnored ==
    (/\ io.fn = "wire" /\ io.unknown > 0 /\ ~io.pieces
     /\ io.flight = << >> /\ io.inputs # << >>
     /\ \A i \in ActiveSlots : inb[players[i].socket] = << >>)
        => \A i \in ActiveSlots :
              << players[i].input_flags, players[i].weapon, players[i].last_sequence >>
                  = io.inputs[Len(io.inputs)]

\* C25: however the bytes of the client's stream are split across the
\* server's reads, every input the server has applied to a slot is one the
\* client sent, with the field values the client sent.
C25_AppliedAsSent ==
    (io.fn = "wire" /\ io.unknown = 0)
        => \A i \in ActiveSlots :
              players[i].last_sequence > 0 =>
                  \E k \in 1 .. Len(io.inputs) :
                      io.inputs[k] = << players[i].input_flags, players[i].weapon,
                                        players[i].last_sequence >>

\* the Bridge holds what the agent should hold of one of the messages sent
HeldAsSent ==
    \E k \in 1 .. Len(io.sent) :
        /\ io.bridge.server_tick = io.sent[k].server_tick
        /\ io.bridge.players = io.sent[k].players
        /\ io.bridge.bullets = io.sent[k].bullets

\* C26: however the server's stream is split across the agent's reads, every
\* snapshot the agent publishes is one GameState message the server sent, and
\* the agent reads no header from the middle of a message.
C26_PublishedAsSent ==
    io.fn = "pass" =>
        /\ io.bridge.packets_received > 0 => HeldAsSent
        /\ ~io.mid

\* C30: in a pass in which a GameState message cannot be read completely the
\* agent publishes nothing: the Bridge's players, projectiles, counts, server
\* tick and packet counter are what they were before the pass and the status
\* stays Connected.
C30_NothingPublishedWhenShort ==
    (io.fn = "pass" /\ io.short) =>
        /\ io.bridge = io.before
        /\ io.bridge.status = NET_CONNECTED

\* a pass has ended short of a projectile record after a snapshot was published
C30_Witness ==
    /\ io.fn = "pass" /\ io.short /\ io.pc \in {"header", "done"}
    /\ io.loc.player_count = 1 /\ Len(io.loc.players) = 1
    /\ io.loc.bullet_count = 1 /\ io.loc.bullets = << >>
    /\ io.bridge.packets_received = 1

\* C27: after net_client_disconnect has cleared the running flag the agent
\* thread terminates and the join returns, whatever phase the agent is in.
C27_StopJoins ==
    (main_pc \in {"disc_join", "dest_join"}) ~> (main_pc \notin {"disc_join", "dest_join"})

\* C28: when the command-line client connects to a server with a free slot
\* the handshake completes: the server reads its Connect and the client gets
\* its ConnectAck, so neither side waits for the other for ever.
C28_CliHandshakeCompletes ==
    (io.fn = "cli" /\ io.pc = "wait_ack") ~> (io.fn = "cli" /\ io.pc = "joined")

\* connection c holds a slot of table P
HoldsSlot(P, c) == \E i \in Slots : P[i].active /\ P[i].socket = c

\* the bytes b begin with a whole Connect message
WholeConnect(b) ==
    /\ Len(b) >= SIZEOF_HEADER + SIZEOF_CONNECT
    /\ HdrType(Take(b, SIZEOF_HEADER)) = MSG_CONNECT

\* C29: a connection is given a slot only when the server has read a whole
\* Connect with its own protocol version from it; a connection whose first
\* message is not a Connect, or whose Connect cannot be read whole, is closed
\* with no ConnectAck sent and no slot taken; and nothing is read as a
\* PlayerInput, and no input applied, for a connection that holds no slot.
C29_SlotOnlyAfterConnect ==
    [][ /\ \A c \in Conns :
              (~HoldsSlot(players, c) /\ HoldsSlot(players', c)) =>
                  /\ srv_pc = "handshake" /\ hs_sock = c
                  /\ WholeConnect(inb[c])
                  /\ inb[c][SIZEOF_HEADER + 1] = PROTOCOL_VERSION
        /\ (srv_pc = "handshake" /\ srv_pc' # "handshake" /\ ~WholeConnect(inb[hs_sock])) =>
              /\ cst'[hs_sock] = "closed"
              /\ ack'[hs_sock] = << >>
              /\ ~HoldsSlot(players', hs_sock)
              /\ players' = players /\ player_count' = player_count
        /\ \A c \in Conns :
              (srv_pc = "recv" /\ inb'[c] # inb[c]) =>
                  /\ players[srv_i].active /\ players[srv_i].socket = c
        /\ \A i \in Slots :
              (players[i].active /\ players'[i].active
                 /\ << players'[i].input_flags, players'[i].weapon, players'[i].last_sequence >>
                      # << players[i].input_flags, players[i].weapon, players[i].last_sequence >>)
                  => (srv_pc = "recv" /\ srv_i = i)
      ]_vars

\* C29 witness: one peer sent a whole Connect and holds a slot, the other sent a
\* PlayerInput first and was closed with no answer
C29_Witness ==
    /\ io.fn = "first"
    /\ \E c, d \in Conns :
          /\ io.first[c] = "connect" /\ HoldsSlot(players, c)
          /\ io.first[d] \in {"input", "part"} /\ cst[d] = "closed" /\ ack[d] = << >>
          /\ ~HoldsSlot(players, d)

(* SpecSync: the world step and the projectile part of server_send_state for
   four ships that hold their fire buttons down, iteration after iteration.
   The ships keep their columns (server.c 245: 100, 250, 400, 550) and stay on
   one row, so that a projectile is followed by the updates it has gone
   through: its height is the muzzle height less moved * vy * dt, and with
   |vx| <= 104 px/s it does not come to the left or right edge from these
   columns before it is above the field. *)

\* server.c 426, 434, 441: how far above the ship a projectile is spawned
Muzzle(weapon_type) ==
    CASE weapon_type = WEAPON_TYPE_RAPID -> 25
      [] weapon_type = WEAPON_TYPE_LASER -> 30
      [] OTHER -> 20

\* server.c 418-424, 432, 439: -vy of a projectile in thousandths of a pixel
\* per second (400 * cosf(0.2618f) = 386.37 for the outer shots of a volley)
Climb(weapon_type, shot) ==
    CASE weapon_type = WEAPON_TYPE_RAPID -> 600000
      [] weapon_type = WEAPON_TYPE_LASER -> 800000
      [] weapon_type = WEAPON_TYPE_SPREAD /\ shot # 1 -> 386370
      [] OTHER -> 400000

\* server.c 462-463, 471: bullet->y < 0 for a projectile b fired from a ship on
\* row `row`, after b.moved updates of 1/60 s
LeavesField(b, row) ==
    (row - Muzzle(b.weapon_type)) * 60000 < b.moved * Climb(b.weapon_type, b.shot)

\* server_update_bullets with the test of the upper edge, for ships on `row`
server_update_bullets_on(W, dt, row) ==
    LET T == server_update_bullets(W, dt)
        gone == {k \in 1 .. Len(T.bullets) : T.bullets[k].active /\ LeavesField(T.bullets[k], row)}
    IN [bullets |-> [k \in 1 .. Len(T.bullets) |->
                       IF k \in gone THEN [T.bullets[k] EXCEPT !.active = FALSE]
                       ELSE T.bullets[k]],
        bullet_count |-> T.bullet_count - Cardinality(gone)]

\* server.c 581-586 and 629-645 on table B: the slots whose projectiles go into
\* the snapshot, in the order they are written
SyncSlots(B) ==
    LET live == {k \in 1 .. Len(B) : B[k].active}
    IN Take(InOrder(live), Min(Cardinality(live), MAX_SYNC_BULLETS))

\* the rows of a run: the spawn row (server.c 246) and the lowest row the clamp
\* of server.c 572 allows
FiringRows == {400, GAME_HEIGHT - 32}

\* four ships in play that hold fire with weapon w
Crew(w) ==
    [i \in Slots |-> [ZeroPlayer EXCEPT !.active = TRUE, !.socket = i + 1, !.health = 100,
                                        !.weapon = w, !.input_flags = INPUT_FIRE]]

syncOnly == << serverState, clientState, io >>

InitSync ==
    /\ ServerIdle
    /\ ClientStart
    /\ io = [fn |-> "none"]
    /\ gun \in {[fn |-> "sync", row |-> r, pc |-> "world", ticks |-> 0,
                  table |-> [players |-> Crew(w), bullets |-> << >>, bullet_count |-> 0],
                  sent |-> << >>, left |-> {}]
                    : r \in FiringRows, w \in {WEAPON_TYPE_SPREAD, WEAPON_TYPE_RAPID}}

\* server.c 731-734: server_handle_firing and server_update_bullets
SyncWorld ==
    /\ gun.fn = "sync" /\ gun.pc = "world"
    /\ gun.ticks < SyncTicks
    /\ LET fired == server_handle_firing(gun.table, 0)
           flown == server_update_bullets_on([bullets |-> fired.bullets,
                                              bullet_count |-> fired.bullet_count],
                                             DT, gun.row)
       IN gun' = [gun EXCEPT !.table = [players |-> fired.players, bullets |-> flown.bullets,
                                         bullet_count |-> flown.bullet_count],
                             !.pc = "send"]
    /\ UNCHANGED syncOnly

\* server.c 737-745: the projectile records of the snapshot (gun.sent: the
\* updates each has gone through, in the order written), the active
\* projectiles that are not in it (gun.left), and the end of the iteration
SyncSend ==
    /\ gun.fn = "sync" /\ gun.pc = "send"
    /\ LET B == gun.table.bullets
           order == SyncSlots(B)
           taken == {order[n] : n \in 1 .. Len(order)}
       IN gun' = [gun EXCEPT !.sent = [n \in 1 .. Len(order) |-> B[order[n]].moved],
                             !.left = {B[k].moved : k \in {j \in 1 .. Len(B) : B[j].active} \ taken},
                             !.pc = "world",
                             !.ticks = @ + 1]
    /\ UNCHANGED syncOnly

NextSync ==
    \/ SyncWorld
    \/ SyncSend

SpecSync == InitSync /\ [][NextSync]_vars

\* C31: a snapshot carries at most MAX_SYNC_BULLETS projectile records, and
\* when more projectiles are active no projectile left out has been in flight
\* longer than one that is included
C31_OldestAreSent ==
    gun.fn = "sync" =>
        /\ Len(gun.sent) <= MAX_SYNC_BULLETS
        /\ \A n \in 1 .. Len(gun.sent) : \A m \in gun.left : gun.sent[n] >= m

(* SpecFrame: the projectile table from the return of server_init on.
   `GameServer server;` is an automatic variable of main (server.c 698) and
   server_init (117-134) assigns neither bullets[] nor bullet_count, so that
   the table starts with whatever the stack frame holds: every slot may read
   as free or as active with any lifetime, and bullet_count may be any int. *)

\* what a slot of the frame can read as: free, or active with a lifetime of
\* one step or of BULLET_LIFETIME
FrameSlot ==
    {[active |-> a, owner_id |-> 0, weapon_type |-> WEAPON_TYPE_SPREAD, lifetime |-> l,
      from |-> << >>, shot |-> 0, moved |-> 0]
        : a \in BOOLEAN, l \in {DT, BULLET_LIFETIME}}

\* the first FrameSlots slots as the frame holds them (the slots behind them
\* read as free), and the int at bullet_count
FrameTables ==
    {[bullets |-> B, bullet_count |-> n]
        : B \in UNION {[1 .. k -> FrameSlot] : k \in 0 .. FrameSlots},
          n \in {-3, 0, 1, MAX_SERVER_BULLETS + 50}}

frameOnly == << serverState, clientState, io >>

InitFrame ==
    /\ ServerIdle
    /\ ClientStart
    /\ io = [fn |-> "none"]
    /\ gun \in {[fn |-> "frame", table |-> T, updates |-> 0, spawned |-> 0] : T \in FrameTables}

\* server_spawn_bullet for a ship in slot 0, with the Spread or the Rapid weapon
FrameSpawn ==
    /\ gun.fn = "frame"
    /\ gun.spawned < FrameSpawns
    /\ \E w \in {WEAPON_TYPE_SPREAD, WEAPON_TYPE_RAPID} :
          gun' = [gun EXCEPT !.table = server_spawn_bullet(@, 0, w, << >>),
                             !.spawned = @ + 1]
    /\ UNCHANGED frameOnly

\* server_update_bullets(server, dt)
FrameUpdate ==
    /\ gun.fn = "frame"
    /\ gun.updates < FrameUpdates
    /\ gun' = [gun EXCEPT !.table = server_update_bullets(@, DT),
                          !.updates = @ + 1]
    /\ UNCHANGED frameOnly

NextFrame ==
    \/ FrameSpawn
    \/ FrameUpdate

SpecFrame == InitFrame /\ [][NextFrame]_vars

\* the slots of table W that are occupied
Occupied(W) == {k \in 1 .. Len(W.bullets) : W.bullets[k].active}

\* C32: after server_init no projectile slot is occupied and bullet_count is
\* 0; in every later state bullet_count is the number of occupied slots and
\* lies in 0 .. MAX_SERVER_BULLETS
C32_CountIsOccupiedSlots ==
    gun.fn = "frame" =>
        /\ (gun.updates = 0 /\ gun.spawned = 0) =>
              (Occupied(gun.table) = {} /\ gun.table.bullet_count = 0)
        /\ gun.table.bullet_count = Cardinality(Occupied(gun.table))
        /\ gun.table.bullet_count \in 0 .. MAX_SERVER_BULLETS

(* SpecReuse: sessions that follow one another in a player slot.  Each peer
   sends a Connect, then at most one PlayerInput (up and fire, with the Rapid
   weapon) whose sequence number is 1 or MaxSeq, and may close;
   io.sent keeps the sequence number each peer sent (0: none yet). *)

ReuseSequences == {1, MaxSeq}

InitReuse ==
    /\ ServerInit([conns |-> ReuseConns, msgs |-> 0, faults |-> ReuseFaults, bad |-> 0,
                   ticks |-> ReuseTicks])
    /\ ClientStart
    /\ gun = [fn |-> "none"]
    /\ io = [fn |-> "reuse", sent |-> [c \in 1 .. ReuseConns |-> 0]]

\* the one PlayerInput of a session
SessionInput(c, sequence) ==
    /\ io.fn = "reuse" /\ io.sent[c] = 0
    /\ cst[c] = "held" /\ peer[c] = "open" /\ Accepted(c)
    /\ WireTurn
    /\ inb' = [inb EXCEPT ![c] = @ \o EncHeader(MSG_PLAYER_INPUT, SIZEOF_INPUT)
                                   \o EncInput(ack[c][2], INPUT_UP + INPUT_FIRE,
                                               WEAPON_TYPE_RAPID, sequence)]
    /\ io' = [io EXCEPT !.sent[c] = sequence]
    /\ UNCHANGED << serverVars, backlog, cst, ack, snap, peerVars, hist, clientState, gun >>

NextReuse ==
    \/ \E c \in Conns : PeerOpen(c)
    \/ \E c \in Conns : PeerSendConnect(c, PROTOCOL_VERSION, SIZEOF_CONNECT)
    \/ \E c \in Conns, s \in ReuseSequences : SessionInput(c, s)
    \/ \E c \in Conns : PeerClose(c)
    \/ Accept
    \/ Handshake
    \/ ProcessSlot
    \/ UpdateWorld
    \/ SendState
    \/ Tick

SpecReuse == InitReuse /\ [][NextReuse]_vars

\* the server has read the PlayerInput of the session on connection c
SessionInputRead(c) == io.sent[c] > 0 /\ inb[c] = << >>

\* C33: a player slot given to a new connection starts with last-accepted
\* sequence, input flags and fire cooldown zero and at rest, and keeps so
\* until the session's own input is read (the new player neither moves nor
\* fires on its predecessor's input); the session's first PlayerInput, its
\* sequence being 1 or more, is then applied whatever the predecessor reached
C33_SlotStartsAfresh ==
    io.fn = "reuse" =>
        \A i \in Slots :
            players[i].active =>
                LET p == players[i]
                    c == p.socket
                IN IF SessionInputRead(c)
                   THEN /\ p.last_sequence = io.sent[c]
                        /\ p.input_flags = INPUT_UP + INPUT_FIRE
                        /\ p.weapon = WEAPON_TYPE_RAPID
                   ELSE /\ p.last_sequence = 0
                        /\ p.input_flags = 0
                        /\ p.fire_cooldown = 0
                        /\ \A k \in 1 .. Len(p.kin) : p.kin[k] = 0
                        /\ \A k \in 1 .. Len(bullets) :
                              (bullets[k].active /\ bullets[k].owner_id = i)
                                  => bullets[k].moved >= 1 + Len(p.kin)

\* slot 0 is held by the second connection, whose input with sequence 1 was
\* applied after the first connection had reached MaxSeq in the same slot
C33_Witness ==
    /\ io.fn = "reuse"
    /\ cst[1] = "closed" /\ io.sent[1] = MaxSeq
    /\ players[0].active /\ players[0].socket = 2
    /\ io.sent[2] = 1 /\ players[0].last_sequence = 1
    /\ players[0].kin # << >>

\* C34: whenever the status in SharedState is Connected, my_id is the player
\* id of the ConnectAck the network thread read (the id is stored before
\* Connected is published)
C34_IdBeforeConnected ==
    sh.status = NET_CONNECTED =>
        /\ agent_loc.ack.success = 1
        /\ sh.my_id = agent_loc.ack.player_id

\* Connected is published for a client that was given the player id 1
C34_Witness ==
    /\ sh.status = NET_CONNECTED
    /\ agent_loc.ack.player_id = 1
    /\ sh.my_id = 1

\* C35: the status in SharedState only moves from Disconnected (as
\* shared_state_init left it) to Connecting, from Connecting to Connected or
\* Error, and from Connected to Disconnected or Error; from Error, and from the
\* Disconnected that follows Connected, it moves no more
C35_StatusMoves ==
    [][sh'.status # sh.status =>
          \/ /\ sh.status = NET_DISCONNECTED /\ sh.message = "Not connected"
             /\ sh'.status = NET_CONNECTING
          \/ /\ sh.status = NET_CONNECTING
             /\ sh'.status \in {NET_CONNECTED, NET_ERROR}
          \/ /\ sh.status = NET_CONNECTED
             /\ sh'.status \in {NET_DISCONNECTED, NET_ERROR}]_vars

\* the network thread has returned after the server closed an established
\* connection
C35_Witness ==
    /\ agent_pc = "done"
    /\ sh.status = NET_DISCONNECTED
    /\ sh.message = "Server closed"
    /\ sh.packets_received > 0

\* C36: in the steady-state loop a header read that finds no data leaves the
\* status Connected and the loop running; a read of length zero sets the status
\* Disconnected ("Server closed") and ends the loop; any other failed read sets
\* it Error ("Connection error") and ends the loop
C36_HeaderReadOutcomes ==
    /\ [][(agent_pc = "recv" /\ agent_pc' = "get_input") =>
             /\ sh.status = NET_CONNECTED /\ sh' = sh
             /\ nc'.running = nc.running /\ loopExit' = ""]_vars
    /\ [](loopExit = "closed" =>
             /\ sh.status = NET_DISCONNECTED /\ sh.message = "Server closed"
             /\ ~nc.running /\ agent_pc \in {"cleanup", "done", "crashed"})
    /\ [](loopExit = "error" =>
             /\ sh.status = NET_ERROR /\ sh.message = "Connection error"
             /\ ~nc.running /\ agent_pc \in {"cleanup", "done", "crashed"})

\* a pass that found no data was followed by one whose read failed
C36_Witness ==
    /\ loopExit = "error"
    /\ sh.status = NET_ERROR /\ sh.message = "Connection error"
    /\ link.polls = 2 /\ sh.packets_sent = 1 /\ sh.packets_received = 0

\* the places of the network thread at which it connects, sends, receives or
\* sleeps: network_client.c 78, 98-99, 114-160, 182-262, 52-53 and 284
AgentOnTheWire == agent_pc \in {"connect", "send_connect", "recv_ack", "recv", "send_input", "loop"}

\* C37: the network thread holds the SharedState mutex at none of its socket
\* sends, receives or pacing sleeps
C37_NoLockOnTheWire ==
    (AgentOnTheWire /\ AgentSound) => mutex # "agent"

\* the network thread is at its send while the main thread holds the mutex
C37_Witness ==
    /\ agent_pc = "send_input" /\ AgentSound
    /\ mutex = "main"

(* SpecCrowd: server_spawn_bullet on a projectile table that is full or has
   one, two or three free slots, followed by further fire events and by
   server_update_bullets.  gun.before keeps the table as the last fire event
   found it, gun.weapon the weapon fired (-1: none yet, or an update came
   since). *)

\* the places a free slot is left at: the first slot, one inside, the last
CrowdGaps == {1, 100, MAX_SERVER_BULLETS}

\* a table of MAX_SERVER_BULLETS slots, all occupied but those of `gaps`
CrowdTable(gaps) ==
    [bullets |-> [k \in 1 .. MAX_SERVER_BULLETS |->
                    [active |-> k \notin gaps, owner_id |-> 1,
                     weapon_type |-> WEAPON_TYPE_RAPID, lifetime |-> BULLET_LIFETIME,
                     from |-> << >>, shot |-> 0, moved |-> 0]],
     bullet_count |-> MAX_SERVER_BULLETS - Cardinality(gaps)]

crowdOnly == << serverState, clientState, io >>

InitCrowd ==
    /\ ServerIdle
    /\ ClientStart
    /\ io = [fn |-> "none"]
    /\ gun \in {[fn |-> "crowd", table |-> CrowdTable(gaps), before |-> CrowdTable(gaps),
                  weapon |-> -1, spawned |-> 0, updates |-> 0] : gaps \in SUBSET CrowdGaps}

\* server.c 504-510: a fire event of the ship in slot 0 with weapon w
CrowdFire ==
    /\ gun.fn = "crowd"
    /\ gun.spawned < CrowdSpawns
    /\ \E w \in {WEAPON_TYPE_SPREAD, WEAPON_TYPE_RAPID, WEAPON_TYPE_LASER} :
          gun' = [gun EXCEPT !.table = server_spawn_bullet(@, 0, w, << 0 >>),
                             !.before = gun.table,
                             !.weapon = w,
                             !.spawned = @ + 1]
    /\ UNCHANGED crowdOnly

\* server.c 734: the iteration goes on with server_update_bullets
CrowdUpdate ==
    /\ gun.fn = "crowd"
    /\ gun.updates < CrowdUpdates
    /\ gun' = [gun EXCEPT !.table = server_update_bullets(@, DT),
                          !.weapon = -1,
                          !.updates = @ + 1]
    /\ UNCHANGED crowdOnly

NextCrowd ==
    \/ CrowdFire
    \/ CrowdUpdate

SpecCrowd == InitCrowd /\ [][NextCrowd]_vars

\* how many projectiles a fire event with weapon w asks for (server.c 415-450)
Volley(w) == IF w = WEAPON_TYPE_SPREAD THEN 3 ELSE 1

\* C38: a fire event that finds fewer free projectile slots than its weapon
\* asks for creates as many projectiles as there are free slots and no more; no
\* occupied slot is overwritten, the occupied slots never exceed
\* MAX_SERVER_BULLETS, and the iteration goes on with a table whose count is
\* the number of its occupied slots
C38_SpawnsOnlyIntoFreeSlots ==
    /\ gun.fn = "crowd" =>
          /\ gun.table.bullet_count = Cardinality(Occupied(gun.table))
          /\ gun.table.bullet_count <= MAX_SERVER_BULLETS
    /\ (gun.fn = "crowd" /\ gun.weapon # -1) =>
        LET was == Occupied(gun.before)
            now == Occupied(gun.table)
            free == MAX_SERVER_BULLETS - Cardinality(was)
        IN /\ Len(gun.table.bullets) = MAX_SERVER_BULLETS
           /\ was \subseteq now
           /\ Cardinality(now) = Cardinality(was) + Min(free, Volley(gun.weapon))
           /\ Cardinality(now) <= MAX_SERVER_BULLETS
           /\ \A k \in was : gun.table.bullets[k] = gun.before.bullets[k]
           /\ \A k \in now \ was : gun.table.bullets[k].owner_id = 0

\* a Spread volley found two free slots: two projectiles were created and the
\* table is full
C38_Witness ==
    /\ gun.fn = "crowd" /\ gun.weapon = WEAPON_TYPE_SPREAD
    /\ Cardinality(Occupied(gun.before)) = MAX_SERVER_BULLETS - 2
    /\ Cardinality(Occupied(gun.table)) = MAX_SERVER_BULLETS

(* SpecPhysics: the body of server_update_physics for one ship, from its spawn
   point on, with the input flags the ship's slot holds (they change at most
   once in a run).  Positions are carried in 1/1024 pixel and
   velocities in 1/64 pixel per second; each float32 operation of server.c
   529-573 is computed on these grids, rounding towards zero (float32 resolves
   these ranges more finely; the comparisons and assignments of the clamps are
   those of the source). *)

\* n pixels, and n pixels per second, on the grids of the run
Px(n) == n * 1024
PxPerSec(n) == n * 64

\* v * n / d, rounded towards zero
Scaled(v, n, d) == IF v >= 0 THEN (v * n) \div d ELSE -(((-v) * n) \div d)

\* whether bit `flag` is set in input_flags
Pressed(input_flags, flag) == (input_flags \div flag) % 2 = 1

\* sqrtf on the velocity grid: the largest s in lo .. hi with s * s <= n
RECURSIVE Root(_, _, _)
Root(n, lo, hi) ==
    IF lo >= hi THEN lo
    ELSE LET mid == (lo + hi + 1) \div 2
         IN IF mid * mid <= n THEN Root(n, mid, hi) ELSE Root(n, lo, mid - 1)

\* a clamp that leaves the velocity as it is
ClampKeepsVelocity(pos, vel, lo, hi) ==
    IF pos < lo THEN << lo, vel, TRUE >>
    ELSE IF pos > hi THEN << hi, vel, TRUE >>
    ELSE << pos, vel, FALSE >>

\* server.c 569-570 (x) and 571-572 (y): position, velocity, and whether the
\* axis was clamped
Clamp(pos, vel, lo, hi) ==
    LET low == IF pos < lo THEN << lo, 0, TRUE >> ELSE << pos, vel, FALSE >>
    IN IF low[1] > hi THEN << hi, 0, TRUE >> ELSE low

\* server.c 245-246: the spawn point of slot i
SpawnPoint(i) == [x |-> Px(100 + i * 150), y |-> Px(400)]

\* server.c 529-572 for ship p = [x, y, vx, vy, input_flags]
MoveShip(p) ==
    LET ay == IF Pressed(p.input_flags, INPUT_DOWN) THEN 1
              ELSE IF Pressed(p.input_flags, INPUT_UP) THEN -1 ELSE 0
        ax == IF Pressed(p.input_flags, INPUT_RIGHT) THEN 1
              ELSE IF Pressed(p.input_flags, INPUT_LEFT) THEN -1 ELSE 0
        \* accel * PLAYER_ACCELERATION * dt, with 0.7071f on a diagonal
        push == IF ax # 0 /\ ay # 0
                THEN Scaled(PxPerSec(PLAYER_ACCELERATION), 7071, 10000 * TICK_RATE)
                ELSE Scaled(PxPerSec(PLAYER_ACCELERATION), 1, TICK_RATE)
        \* powf(PLAYER_FRICTION, dt * 60.0f) = 0.95f
        vx1 == Scaled(p.vx + ax * push, 95, 100)
        vy1 == Scaled(p.vy + ay * push, 95, 100)
        fast == vx1 * vx1 + vy1 * vy1 > PxPerSec(PLAYER_SPEED) * PxPerSec(PLAYER_SPEED)
        speed == Root(vx1 * vx1 + vy1 * vy1, 0, 46340)
        vx2 == IF fast THEN Scaled(vx1, PxPerSec(PLAYER_SPEED), speed) ELSE vx1
        vy2 == IF fast THEN Scaled(vy1, PxPerSec(PLAYER_SPEED), speed) ELSE vy1
        vx3 == IF Abs(vx2) < PxPerSec(1) THEN 0 ELSE vx2
        vy3 == IF Abs(vy2) < PxPerSec(1) THEN 0 ELSE vy2
        cx == Clamp(p.x + Scaled(vx3, 16, TICK_RATE), vx3, Px(32), Px(GAME_WIDTH - 32))
        cy == Clamp(p.y + Scaled(vy3, 16, TICK_RATE), vy3, Px(32), Px(GAME_HEIGHT - 32))
    IN [x |-> cx[1], vx |-> cx[2], y |-> cy[1], vy |-> cy[2], input_flags |-> p.input_flags,
        clamped |-> [x |-> cx[3], y |-> cy[3]]]

\* the flags a ship is steered with
Steerings == {0, INPUT_RIGHT, INPUT_UP + INPUT_LEFT,
              INPUT_UP + INPUT_DOWN + INPUT_LEFT + INPUT_RIGHT}

physicsOnly == << serverState, clientState, io >>

InitPhysics ==
    /\ ServerIdle
    /\ ClientStart
    /\ io = [fn |-> "none"]
    /\ gun \in {[fn |-> "physics", slot |-> i, steps |-> 0, steered |-> FALSE,
                  ship |-> [x |-> SpawnPoint(i).x, y |-> SpawnPoint(i).y, vx |-> 0, vy |-> 0,
                            input_flags |-> f, clamped |-> [x |-> FALSE, y |-> FALSE]]]
                    : i \in Slots, f \in {INPUT_LEFT, INPUT_DOWN + INPUT_RIGHT, INPUT_UP}}

\* server.c 322-324: a PlayerInput changes the flags of the slot
Steer ==
    /\ gun.fn = "physics"
    /\ ~gun.steered
    /\ \E f \in Steerings \ {gun.ship.input_flags} :
          gun' = [gun EXCEPT !.ship.input_flags = f, !.steered = TRUE]
    /\ UNCHANGED physicsOnly

\* server_update_physics(server, dt) for the ship
PhysicsStep ==
    /\ gun.fn = "physics"
    /\ gun.steps < PhysicsSteps
    /\ gun' = [gun EXCEPT !.ship = MoveShip(@), !.steps = @ + 1]
    /\ UNCHANGED physicsOnly

NextPhysics ==
    \/ Steer
    \/ PhysicsStep

SpecPhysics == InitPhysics /\ [][NextPhysics]_vars

\* C39: at its spawn point and after every physics step a ship is within
\* 32 <= x <= GAME_WIDTH - 32 and 32 <= y <= GAME_HEIGHT - 32, and on every
\* axis that the step clamped its velocity is zero
C39_ShipKeptInField ==
    gun.fn = "physics" =>
        /\ gun.ship.x >= Px(32) /\ gun.ship.x <= Px(GAME_WIDTH - 32)
        /\ gun.ship.y >= Px(32) /\ gun.ship.y <= Px(GAME_HEIGHT - 32)
        /\ gun.ship.clamped.x => gun.ship.vx = 0
        /\ gun.ship.clamped.y => gun.ship.vy = 0
        /\ \A i \in Slots :
              /\ SpawnPoint(i).x >= Px(32) /\ SpawnPoint(i).x <= Px(GAME_WIDTH - 32)
              /\ SpawnPoint(i).y >= Px(32) /\ SpawnPoint(i).y <= Px(GAME_HEIGHT - 32)

\* a ship steered down and to the right was stopped at the lower edge by the
\* last step while it goes on to the right
C39_Witness ==
    /\ gun.fn = "physics"
    /\ gun.ship.input_flags = INPUT_DOWN + INPUT_RIGHT
    /\ gun.ship.clamped.y /\ ~gun.ship.clamped.x
    /\ gun.ship.y = Px(GAME_HEIGHT - 32) /\ gun.ship.vy = 0
    /\ gun.ship.vx > 0

\* C40: the ticks of the snapshots a client receives one after the other are
\* strictly increasing, and the tick counter goes up by exactly one in every
\* iteration of the loop, with or without a broadcast
C40_TicksAdvance ==
    /\ [][\A c \in Conns : (snap[c] # << >> /\ snap'[c] # snap[c]) =>
                              snap'[c].tick > snap[c].tick]_vars
    /\ [][tick' # tick => (srv_pc = "tick" /\ tick' = tick + 1)]_vars
    /\ [][(srv_pc = "tick" /\ srv_pc' # "tick") => tick' = tick + 1]_vars
    /\ [][(srv_pc = "send" /\ srv_pc' # "send") => srv_pc' = "tick"]_vars
    /\ [][(srv_pc # "accept" /\ srv_pc' = "accept") => srv_pc = "tick"]_vars

\* the first client received the snapshots of ticks 0 and 1 and left; an
\* iteration without a broadcast followed and the counter went on
C40_Witness ==
    /\ player_count = 0
    /\ snap[1] # << >> /\ snap[1].tick = 1
    /\ acceptLog = << 1 >>
    /\ tick >= snap[1].tick + 2

====
